---------------------------- MODULE Spec2Model ----------------------------
(***************************************************************************)
(* Verification model of the flowdiscovery digital-rock core:              *)
(*   - HandleBasedBinaryHeap   (src/skeleton/heaps)                        *)
(*   - BinaryHeap + SkeletonizerByIFT (src/skeleton)                       *)
(*   - EnhancedHoshenKopelman  (src/cluster_label)                         *)
(*   - Dijkstra / CenterlineSet / CenterlineCalculator (src/skeleton)      *)
(* Every subsystem has its own variables and its own specification; the    *)
(* variables of the other subsystems stay at their idle value.             *)
(***************************************************************************)
EXTENDS Integers, Sequences, FiniteSets, TLC

(***************************************************************************)
(* Generic helpers                                                         *)
(***************************************************************************)
Abs(x) == IF x < 0 THEN -x ELSE x

Max2(a, b) == IF a > b THEN a ELSE b

Min2(a, b) == IF a < b THEN a ELSE b

Range(s) == {s[i] : i \in 1..Len(s)}

(***************************************************************************)
(* State of HandleBasedBinaryHeap                                          *)
(***************************************************************************)
VARIABLES
  elements_,        \* std::vector<Handle*>: sequence of handle ids (slot i+1 = index i)
  handles,          \* heap memory: handle id -> [priority, index, live]
  decreaseCounter_, \* int64_t decreaseCounter_
  removeCounter_,   \* int64_t removeCounter_
  hcounter,         \* _annotated_vertex_helper_counter::counter
  hret              \* outcome of the last heap call

hvars == <<elements_, handles, decreaseCounter_, removeCounter_, hcounter, hret>>

(***************************************************************************)
(* State of EnhancedHoshenKopelman                                         *)
(***************************************************************************)
VARIABLES
  l,              \* arma::ucube l: [n_rows, n_cols, n_slices, mem]
  n,              \* arma::ivec n: cluster sizes (> 0) or links (< 0), slot x+1 = n(x)
  bbox_min,       \* arma::umat bbox_min, one row per label
  bbox_max,       \* arma::umat bbox_max, one row per label
  largest_label,  \* arma::uword largest_label
  prev_label,     \* static arma::uword prev_label of HKProper (-1 models -1U)
  prev_proper,    \* static arma::uword prev_proper of HKProper
  idx_head,       \* labels in idx.head(infinite_clusters)
  hk_pc,          \* position inside EnhancedHoshenKopelman
  hk_pos,         \* linear index of the site the sweep is at
  flagged,        \* the cube as it was passed in
  hk_calls        \* the calls of EnhancedHoshenKopelman made so far in the process

hkvars == <<l, n, bbox_min, bbox_max, largest_label, prev_label, prev_proper,
            idx_head, hk_pc, hk_pos, flagged, hk_calls>>

(***************************************************************************)
(* State of SkeletonizerByIFT and of its BinaryHeap                        *)
(***************************************************************************)
VARIABLES
  image_,          \* the ternary image: 0 object (pore), 1 contour, 2 inner solid
  annotations_,    \* AnnotatedImage: one slot per voxel, has = FALSE when absent
  queue,           \* BinaryHeap: [el |-> elements_, map |-> key_to_index_, fail]
  counter_value_,  \* SkeletonizerByIFT::counter_value_
  ift_pc           \* position inside ComputeSkeleton

iftvars == <<image_, annotations_, queue, counter_value_, ift_pc>>

(***************************************************************************)
(* A caller that drives a BinaryHeap of its own, call by call              *)
(***************************************************************************)
VARIABLES
  bh_ret           \* outcome of the last call made on the BinaryHeap

(***************************************************************************)
(* A caller that holds a MemoryGraph and a SpeedGraph built from the same  *)
(* annotated image and makes every call on both.  Slot p + 1 is the vertex *)
(* whose point has the linear index p.                                     *)
(***************************************************************************)
VARIABLES
  memory_vertex_set_,    \* MemoryGraph::vertex_set_
  speed_vertex_set_,     \* SpeedGraph::vertex_set_
  has_annotation_list_,  \* SpeedGraph::has_annotation_list_
  g_ret                  \* the last call and what each graph answered

gvars == <<memory_vertex_set_, speed_vertex_set_, has_annotation_list_, g_ret>>

(***************************************************************************)
(* State of NetworkBuilder::Build (src/skeleton/network): the Network it   *)
(* fills and the position of its two loops.  A point is the triple of its  *)
(* coordinates.                                                            *)
(***************************************************************************)
VARIABLES
  net_image,     \* the points of the annotated image Build is called on
  net_rest,      \* the points the loop of InsertNodesFrom has not reached yet
  node_set_,     \* Network::node_set_
  link_set_,     \* Network::link_set_
  net_cursor,    \* the number of nodes the loop of LinkNeighbouringNodes has done
  net_success,   \* the success flags of InsertNodesFrom and LinkNeighbouringNodes
  net_pc         \* position inside Build

netvars == <<net_image, net_rest, node_set_, link_set_, net_cursor, net_success, net_pc>>

(***************************************************************************)
(* State of the centerline computation: MaximalClustersDiscoverer,         *)
(* Dijkstra, CenterlineSet and the loops of CenterlineCalculator.  The     *)
(* graph is the annotated image (image_, annotations_) restricted to the   *)
(* object points; the queue of a Dijkstra run is the HandleBasedBinaryHeap *)
(* above.  Graphs are indexed by voxel, slot p + 1 for the voxel p.        *)
(***************************************************************************)
VARIABLES
  cluster_id_,                     \* Annotation::cluster_id_ of the graph vertices
  num_of_labels,                   \* MaximalClustersDiscoverer::num_of_labels
  source_points,                   \* the list GetSourcePoints returned
  end_points,                      \* the list GetEndPoints returned
  annotated_graph_,                \* Dijkstra::annotated_graph_
  annotated_graph_accumulated_,    \* Dijkstra::annotated_graph_accumulated_
  annotated_graph_acc_penalties_,  \* Dijkstra::annotated_graph_acc_penalties_
  annotated_label_graph_,          \* Dijkstra::annotated_label_graph_
  pair_labels_,                    \* Dijkstra::pair_labels_
  end_vertices_candidate_list_,    \* Dijkstra::end_vertices_candidate_list_
  paths_,                          \* CenterlineSet::paths_
  statistics_,                     \* CenterlineSet::statistics_ (the size of each path)
  used_nodes_,                     \* CenterlineSet::used_nodes_
  branch_nodes_,                   \* CenterlineSet::branch_nodes_
  source_index,                    \* position of the loop of ComputeForSources
  executed_sources,                \* the sources ExecuteGradient has returned true for
  cl_pc                            \* position inside ComputeCenterlines

clvars == <<cluster_id_, num_of_labels, source_points, end_points, annotated_graph_,
            annotated_graph_accumulated_, annotated_graph_acc_penalties_,
            annotated_label_graph_, pair_labels_, end_vertices_candidate_list_,
            paths_, statistics_, used_nodes_, branch_nodes_, source_index,
            executed_sources, cl_pc>>

vars == <<hvars, hkvars, iftvars, clvars, bh_ret, gvars, netvars>>

nonHeapVars == <<hkvars, iftvars, clvars, bh_ret, gvars, netvars>>

nonHKVars == <<hvars, iftvars, clvars, bh_ret, gvars, netvars>>

nonIFTVars == <<hvars, hkvars, clvars, bh_ret, gvars, netvars>>

nonCLVars == <<hkvars, bh_ret, gvars, netvars>>

nonGraphVars == <<hvars, hkvars, iftvars, clvars, bh_ret, netvars>>

nonNetVars == <<hvars, hkvars, iftvars, clvars, bh_ret, gvars>>

(***************************************************************************)
(* ======================  HandleBasedBinaryHeap  ======================== *)
(* TKey is AnnotatedVertexHelper: a default-constructed key is "empty"     *)
(* (the maximum); otherwise keys compare by (distance, counter).           *)
(***************************************************************************)
\* bounds of the heap specification
MaxInserts == 4
MaxPriority == 2
MaxDecreases == 6

EmptyKey == [is_empty |-> TRUE, distance |-> 0, counter |-> 0]

MkKey(d, c) == [is_empty |-> FALSE, distance |-> d, counter |-> c]

\* AnnotatedVertexHelper::operator< with Annotation::operator<
KeyLess(a, b) ==
  IF a.is_empty THEN FALSE
  ELSE IF b.is_empty THEN TRUE
  ELSE IF a.distance < b.distance THEN TRUE
  ELSE IF a.distance = b.distance THEN a.counter < b.counter
  ELSE FALSE

Parent(index) == (index - 1) \div 2

LeftOffByOne(index) == 2 + (index * 2)

Left(index) == 1 + (index * 2)

Right(index) == 2 + (index * 2)

\* heap value H = [el |-> sequence of handle ids, hs |-> handle memory]
HeapSize(H) == Len(H.el)

IsValid(H, index) == index < HeapSize(H)

\* IsLess(handle left, handle right) on the handles stored at two indices
IsLess(H, i, j) == KeyLess(H.hs[H.el[i + 1]].priority, H.hs[H.el[j + 1]].priority)

\* Swap without the SetIndex of the entry that moves to index2
SwapForgetsIndex(H, index1, index2) ==
  LET e1 == H.el[index1 + 1]
      e2 == H.el[index2 + 1]
      el2 == [H.el EXCEPT ![index2 + 1] = e1, ![index1 + 1] = e2]
  IN [el |-> el2,
      hs |-> [H.hs EXCEPT ![e2].index = index1]]

\* void Swap(size_type index1, size_type index2)
Swap(H, index1, index2) ==
  LET e1 == H.el[index1 + 1]
      e2 == H.el[index2 + 1]
      el2 == [H.el EXCEPT ![index2 + 1] = e1, ![index1 + 1] = e2]
  IN [el |-> el2,
      hs |-> [H.hs EXCEPT ![e2].index = index1, ![e1].index = index2]]

RECURSIVE MinHeapify(_, _)
MinHeapify(H, index) ==
  LET left == Left(index)
      right == Right(index)
      s1 == IF IsValid(H, left) /\ IsLess(H, left, index) THEN left ELSE index
      smallest == IF IsValid(H, right) /\ IsLess(H, right, s1) THEN right ELSE s1
  IN IF smallest # index THEN MinHeapify(Swap(H, index, smallest), smallest)
     ELSE H

RECURSIVE SiftUp(_, _)
SiftUp(H, index) ==
  IF index > 0 /\ IsLess(H, index, Parent(index))
  THEN SiftUp(Swap(H, index, Parent(index)), Parent(index))
  ELSE H

\* DecreasePriority without the throw check (the check is in the actions)
DecreasePriorityBody(H, h, new_priority) ==
  SiftUp([H EXCEPT !.hs[h].priority = new_priority], H.hs[h].index)

\* DecreasePriority without its check of the new priority
DecreaseNeverThrows(H, h, new_priority) == FALSE

\* the check at the head of DecreasePriority
DecreaseThrows(H, h, new_priority) == KeyLess(H.hs[h].priority, new_priority)

\* Handle* Insert(const TKey &key): the heap after the call, the new handle,
\* and whether DecreasePriority threw
InsertKey(H, key) ==
  LET h == Len(H.hs) + 1
      H0 == [el |-> Append(H.el, h),
             hs |-> Append(H.hs, [priority |-> EmptyKey, index |-> Len(H.el),
                                  live |-> TRUE])]
  IN [H |-> DecreasePriorityBody(H0, h, key), handle |-> h,
      throws |-> DecreaseThrows(H0, h, key)]

\* const TKey Remove() on a heap with more than one entry
RemoveFirst(H) ==
  LET first == H.el[1]
      last == H.el[Len(H.el)]
      el1 == [SubSeq(H.el, 1, Len(H.el) - 1) EXCEPT ![1] = last]
      hs1 == [H.hs EXCEPT ![first].live = FALSE, ![last].index = 0]
  IN [H |-> MinHeapify([el |-> el1, hs |-> hs1], 0), minimum |-> H.hs[first].priority]

HeapNow == [el |-> elements_, hs |-> handles]

NextHandle == Cardinality(DOMAIN handles) + 1

HeapInit ==
  /\ elements_ = <<>>
  /\ handles = <<>>
  /\ decreaseCounter_ = 0
  /\ removeCounter_ = 0
  /\ hcounter = 0
  /\ hret = [op |-> "none"]

HeapIdle ==
  /\ elements_ = <<>>
  /\ handles = <<>>
  /\ decreaseCounter_ = 0
  /\ removeCounter_ = 0
  /\ hcounter = 0
  /\ hret = [op |-> "idle"]

\* Handle* Insert(const TKey &key): key is a fresh annotated vertex (distance d)
HeapInsert(d) ==
  /\ NextHandle <= MaxInserts
  /\ hret.op # "abort"
  /\ LET R == InsertKey(HeapNow, MkKey(d, hcounter))
     IN /\ ~R.throws
        /\ elements_' = R.H.el
        /\ handles' = R.H.hs
        /\ hret' = [op |-> "Insert", handle |-> R.handle]
  /\ hcounter' = hcounter + 1
  /\ decreaseCounter_' = decreaseCounter_ + 1
  /\ UNCHANGED removeCounter_
  /\ UNCHANGED nonHeapVars

\* void DecreasePriority(handle, new_priority): the caller passes a handle of
\* an entry still in the heap and a key with the vertex's own counter
HeapDecreasePriority(h, d) ==
  /\ decreaseCounter_ < MaxDecreases
  /\ hret.op # "abort"
  /\ h \in DOMAIN handles
  /\ handles[h].live
  /\ LET key == MkKey(d, handles[h].priority.counter)
     IN IF DecreaseThrows(HeapNow, h, key)
        THEN /\ hret' = [op |-> "DecreaseThrow", handle |-> h, key |-> key]
             /\ UNCHANGED <<elements_, handles, decreaseCounter_>>
        ELSE LET H1 == DecreasePriorityBody(HeapNow, h, key)
             IN /\ elements_' = H1.el
                /\ handles' = H1.hs
                /\ decreaseCounter_' = decreaseCounter_ + 1
                /\ hret' = [op |-> "Decrease", handle |-> h, key |-> key]
  /\ UNCHANGED <<removeCounter_, hcounter>>
  /\ UNCHANGED nonHeapVars

\* const TKey Remove(): with more than one entry
HeapRemove ==
  /\ hret.op # "abort"
  /\ HeapSize(HeapNow) > 1
  /\ LET R == RemoveFirst(HeapNow)
     IN /\ elements_' = R.H.el
        /\ handles' = R.H.hs
        /\ hret' = [op |-> "Remove", minimum |-> R.minimum, uaf |-> FALSE]
  /\ removeCounter_' = removeCounter_ + 1
  /\ UNCHANGED <<decreaseCounter_, hcounter>>
  /\ UNCHANGED nonHeapVars

\* const TKey Remove(): with exactly one entry.  After pop_back the vector is
\* empty and elements_[0]->SetIndex(0) reads slot 0 past the end and writes
\* through the handle deleted three lines above: undefined behaviour.  The
\* build either goes on (the write lands in released memory) or aborts.
HeapRemoveLast ==
  /\ hret.op # "abort"
  /\ HeapSize(HeapNow) = 1
  /\ LET first == elements_[1]
         minimum == handles[first].priority
     IN /\ elements_' = <<>>
        /\ \E outcome \in {"goes_on", "aborts"} :
             IF outcome = "goes_on"
             THEN /\ handles' = [handles EXCEPT ![first].live = FALSE, ![first].index = 0]
                  /\ hret' = [op |-> "Remove", minimum |-> minimum, uaf |-> TRUE]
                  /\ removeCounter_' = removeCounter_ + 1
             ELSE /\ handles' = [handles EXCEPT ![first].live = FALSE]
                  /\ hret' = [op |-> "abort"]
                  /\ UNCHANGED removeCounter_
  /\ UNCHANGED <<decreaseCounter_, hcounter>>
  /\ UNCHANGED nonHeapVars

\* Remove() on an empty heap throws
HeapRemoveEmpty ==
  /\ hret.op # "abort"
  /\ HeapSize(HeapNow) < 1
  /\ hret.op # "RemoveThrow"
  /\ hret' = [op |-> "RemoveThrow"]
  /\ UNCHANGED <<elements_, handles, decreaseCounter_, removeCounter_, hcounter>>
  /\ UNCHANGED nonHeapVars

HeapNext ==
  \/ \E d \in 0..MaxPriority : HeapInsert(d)
  \/ \E h \in 1..MaxInserts, d \in 0..MaxPriority : HeapDecreasePriority(h, d)
  \/ HeapRemove
  \/ HeapRemoveLast
  \/ HeapRemoveEmpty

(***************************************************************************)
(* ======================  EnhancedHoshenKopelman  ======================= *)
(* src/cluster_label/cluster_label.cc.  The cube is stored column-major,   *)
(* rows fastest, so the sweep order k, j, i is the linear order of mem.    *)
(***************************************************************************)
\* the largest number of pore voxels, and of solid voxels, of the cubes of
\* SmallShape that the labelling is run on
HKMaxPores == 4
HKMaxSolids == 1

SmallShape == <<3, 3, 2>>

NElem(L) == L.n_rows * L.n_cols * L.n_slices

Lin(L, i, j, k) == i + L.n_rows * (j + L.n_cols * k)

At(L, i, j, k) == L.mem[Lin(L, i, j, k) + 1]

RowOf(L, p) == p % L.n_rows

ColOf(L, p) == (p \div L.n_rows) % L.n_cols

SliceOf(L, p) == p \div (L.n_rows * L.n_cols)

\* a row of bbox_min / bbox_max that was never written
Uninit == <<-1, -1, -1>>

RECURSIVE FollowLinks(_, _)
FollowLinks(nv, proper) ==
  IF nv[proper + 1] < 0 THEN FollowLinks(nv, -nv[proper + 1]) ELSE proper

\* arma::uword HKProper(label, n) on M = [n, prev_label, prev_proper, oob, ret];
\* oob records an index outside n
HKProper(label, M) ==
  IF M.oob THEN M
  ELSE IF M.prev_label = label THEN [M EXCEPT !.ret = M.prev_proper]
  ELSE IF label >= Len(M.n) THEN [M EXCEPT !.oob = TRUE]
  ELSE LET proper == FollowLinks(M.n, label)
       IN [n |-> IF proper # label THEN [M.n EXCEPT ![label + 1] = -proper] ELSE M.n,
           prev_label |-> label,
           prev_proper |-> proper,
           oob |-> FALSE,
           ret |-> proper]

\* x.transform(HKProper): the calls are made in element order
RECURSIVE TransformProper(_, _, _)
TransformProper(labels, M, out) ==
  IF Len(out) = Len(labels) THEN [m |-> M, out |-> out]
  ELSE LET M1 == HKProper(labels[Len(out) + 1], M)
       IN TransformProper(labels, M1, Append(out, M1.ret))

\* PreviousLabels with the last label read two rows back instead of one
PreviousLabelsTwoBack(i, j, k, L) ==
  LET imax == L.n_rows - 1
      jmax == L.n_cols - 1
  IN << IF i # 0 /\ j # 0 /\ k # 0 THEN At(L, i-1, j-1, k-1) ELSE 0,
        IF j # 0 /\ k # 0 THEN At(L, i, j-1, k-1) ELSE 0,
        IF i # imax /\ j # 0 /\ k # 0 THEN At(L, i+1, j-1, k-1) ELSE 0,
        IF i # 0 /\ k # 0 THEN At(L, i-1, j, k-1) ELSE 0,
        IF k # 0 THEN At(L, i, j, k-1) ELSE 0,
        IF i # imax /\ k # 0 THEN At(L, i+1, j, k-1) ELSE 0,
        IF i # 0 /\ j # jmax /\ k # 0 THEN At(L, i-1, j+1, k-1) ELSE 0,
        IF j # jmax /\ k # 0 THEN At(L, i, j+1, k-1) ELSE 0,
        IF i # imax /\ j # jmax /\ k # 0 THEN At(L, i+1, j+1, k-1) ELSE 0,
        IF i # 0 /\ j # 0 THEN At(L, i-1, j-1, k) ELSE 0,
        IF j # 0 THEN At(L, i, j-1, k) ELSE 0,
        IF i # imax /\ j # 0 THEN At(L, i+1, j-1, k) ELSE 0,
        IF i > 1 THEN At(L, i-2, j, k) ELSE 0 >>

\* the thirteen labels PreviousNeighbours hands to HKProper
PreviousLabels(i, j, k, L) ==
  LET imax == L.n_rows - 1
      jmax == L.n_cols - 1
  IN << IF i # 0 /\ j # 0 /\ k # 0 THEN At(L, i-1, j-1, k-1) ELSE 0,
        IF j # 0 /\ k # 0 THEN At(L, i, j-1, k-1) ELSE 0,
        IF i # imax /\ j # 0 /\ k # 0 THEN At(L, i+1, j-1, k-1) ELSE 0,
        IF i # 0 /\ k # 0 THEN At(L, i-1, j, k-1) ELSE 0,
        IF k # 0 THEN At(L, i, j, k-1) ELSE 0,
        IF i # imax /\ k # 0 THEN At(L, i+1, j, k-1) ELSE 0,
        IF i # 0 /\ j # jmax /\ k # 0 THEN At(L, i-1, j+1, k-1) ELSE 0,
        IF j # jmax /\ k # 0 THEN At(L, i, j+1, k-1) ELSE 0,
        IF i # imax /\ j # jmax /\ k # 0 THEN At(L, i+1, j+1, k-1) ELSE 0,
        IF i # 0 /\ j # 0 THEN At(L, i-1, j-1, k) ELSE 0,
        IF j # 0 THEN At(L, i, j-1, k) ELSE 0,
        IF i # imax /\ j # 0 THEN At(L, i+1, j-1, k) ELSE 0,
        IF i # 0 THEN At(L, i-1, j, k) ELSE 0 >>

\* void PreviousNeighbours(i, j, k, l, n, nnl)
PreviousNeighbours(i, j, k, L, M) == TransformProper(PreviousLabels(i, j, k, L), M, <<>>)

SetMin(S) == CHOOSE x \in S : \A y \in S : x <= y

RECURSIVE SortedSeq(_)
SortedSeq(S) == IF S = {} THEN <<>> ELSE <<SetMin(S)>> \o SortedSeq(S \ {SetMin(S)})

\* arma::unique(nnl.elem(arma::find(nnl))): ascending, without zero
UniqueNonZero(nnl) == SortedSeq(Range(nnl) \ {0})

Tail1(s) == SubSeq(s, 2, Len(s))

RECURSIVE SumOver(_, _)
SumOver(nv, labels) ==
  IF labels = <<>> THEN 0 ELSE nv[labels[1] + 1] + SumOver(nv, Tail1(labels))

MinRow(a, b) ==
  IF a = Uninit \/ b = Uninit THEN Uninit
  ELSE <<Min2(a[1], b[1]), Min2(a[2], b[2]), Min2(a[3], b[3])>>

MaxRow(a, b) ==
  IF a = Uninit \/ b = Uninit THEN Uninit
  ELSE <<Max2(a[1], b[1]), Max2(a[2], b[2]), Max2(a[3], b[3])>>

RECURSIVE MinRows(_, _, _)
MinRows(bb, labels, acc) ==
  IF labels = <<>> THEN acc
  ELSE MinRows(bb, Tail1(labels), MinRow(acc, bb[labels[1] + 1]))

RECURSIVE MaxRows(_, _, _)
MaxRows(bb, labels, acc) ==
  IF labels = <<>> THEN acc
  ELSE MaxRows(bb, Tail1(labels), MaxRow(acc, bb[labels[1] + 1]))

\* vector v with every slot named in labels set to x
FillAt(v, labels, x) == [q \in 1..Len(v) |-> IF (q - 1) \in Range(labels) THEN x ELSE v[q]]

RECURSIVE KSubsets(_, _)
KSubsets(S, k) ==
  IF k = 0 THEN {{}}
  ELSE IF S = {} THEN {}
  ELSE LET x == SetMin(S)
       IN KSubsets(S \ {x}, k) \cup {T \cup {x} : T \in KSubsets(S \ {x}, k - 1)}

UpToK(S, k) == UNION {KSubsets(S, c) : c \in 0..k}

\* the cube DetermineMorphology passes in: clusters = (xi_ == 0)
Cube(shape, pores) ==
  [n_rows |-> shape[1], n_cols |-> shape[2], n_slices |-> shape[3],
   mem |-> [q \in 1..(shape[1] * shape[2] * shape[3]) |-> IF (q - 1) \in pores THEN 1 ELSE 0]]

Cells(shape) == 0..(shape[1] * shape[2] * shape[3] - 1)

\* 3 x 3 x 20, solid except for the 1 x 1 x 20 channel through (1, 1, z)
ChannelCube == Cube(<<3, 3, 20>>, {4 + 9 * z : z \in 0..19})

\* 4 x 8 x 1 with two clusters that do not touch: a staircase of 8 sites
\* from (0,0) to (3,7), which spans the cube, and a block of 9 sites in
\* rows 0..1, columns 3..7, which does not
StaircaseSites == {<<0, 0>>, <<1, 1>>, <<2, 2>>, <<3, 3>>, <<3, 4>>, <<3, 5>>, <<3, 6>>, <<3, 7>>}

BlockSites == {<<0, c>> : c \in 3..7} \cup {<<1, c>> : c \in 4..7}

StaircaseCube == Cube(<<4, 8, 1>>, {s[1] + 4 * s[2] : s \in StaircaseSites \cup BlockSites})

\* cubes one voxel thick: the row 3 x 1 x 1 with its two ends flagged and the
\* slab 3 x 3 x 1 with its four corners flagged
ThinRow == Cube(<<3, 1, 1>>, {0, 2})

ThinSlab == Cube(<<3, 3, 1>>, {0, 2, 6, 8})

HKCubes ==
  {Cube(SmallShape, P) : P \in UpToK(Cells(SmallShape), HKMaxPores)}
  \cup {Cube(SmallShape, Cells(SmallShape) \ S) : S \in UpToK(Cells(SmallShape), HKMaxSolids)}
  \cup {ChannelCube, StaircaseCube, ThinRow, ThinSlab}

HKInit ==
  /\ l \in HKCubes
  /\ flagged = l
  /\ n = [q \in 1..(NElem(l) \div 2) |-> 0]
  /\ bbox_min = [q \in 1..(NElem(l) \div 2) |-> Uninit]
  /\ bbox_max = [q \in 1..(NElem(l) \div 2) |-> Uninit]
  /\ largest_label = 0
  /\ prev_label = -1
  /\ prev_proper = -1
  /\ idx_head = {}
  /\ hk_pc = "sweep"
  /\ hk_pos = 0
  /\ hk_calls = 1

HKIdle ==
  /\ l = Cube(<<1, 1, 1>>, {})
  /\ flagged = l
  /\ n = <<>>
  /\ bbox_min = <<>>
  /\ bbox_max = <<>>
  /\ largest_label = 0
  /\ prev_label = -1
  /\ prev_proper = -1
  /\ idx_head = {}
  /\ hk_pc = "idle"
  /\ hk_pos = 0
  /\ hk_calls = 0

Machine == [n |-> n, prev_label |-> prev_label, prev_proper |-> prev_proper,
            oob |-> FALSE, ret |-> 0]

\* body of the sweep loop for the flagged site at linear index p
LabelSite(p) ==
  LET i == RowOf(l, p)
      j == ColOf(l, p)
      k == SliceOf(l, p)
      t == <<i, j, k>>
      R1 == PreviousNeighbours(i, j, k, l, Machine)
      R2 == TransformProper(R1.out, R1.m, <<>>)
      M == R2.m
      uniq_non0 == UniqueNonZero(R2.out)
      first == uniq_non0[1]
      others == Tail1(uniq_non0)
  IN IF M.oob
     THEN [err |-> TRUE, mem |-> l.mem, n |-> M.n, bmin |-> bbox_min, bmax |-> bbox_max,
           largest |-> largest_label, m |-> M]
     ELSE IF Len(uniq_non0) = 1
     THEN [err |-> FALSE,
           mem |-> [l.mem EXCEPT ![p + 1] = first],
           n |-> [M.n EXCEPT ![first + 1] = @ + 1],
           bmin |-> [bbox_min EXCEPT ![first + 1] = MinRow(t, @)],
           bmax |-> [bbox_max EXCEPT ![first + 1] = MaxRow(t, @)],
           largest |-> largest_label, m |-> M]
     ELSE IF Len(uniq_non0) = 0
     THEN IF largest_label + 1 >= Len(M.n)
          THEN [err |-> TRUE, mem |-> [l.mem EXCEPT ![p + 1] = largest_label + 1],
                n |-> M.n, bmin |-> bbox_min, bmax |-> bbox_max,
                largest |-> largest_label + 1, m |-> M]
          ELSE [err |-> FALSE,
                mem |-> [l.mem EXCEPT ![p + 1] = largest_label + 1],
                n |-> [M.n EXCEPT ![largest_label + 2] = @ + 1],
                bmin |-> [bbox_min EXCEPT ![largest_label + 2] = t],
                bmax |-> [bbox_max EXCEPT ![largest_label + 2] = t],
                largest |-> largest_label + 1, m |-> M]
     ELSE [err |-> FALSE,
           mem |-> [l.mem EXCEPT ![p + 1] = first],
           n |-> FillAt([M.n EXCEPT ![first + 1] = @ + 1 + SumOver(M.n, others)],
                        others, -first),
           bmin |-> FillAt([bbox_min EXCEPT ![first + 1] = MinRow(t, MinRows(bbox_min, others, @))],
                           others, <<0, 0, 0>>),
           bmax |-> FillAt([bbox_max EXCEPT ![first + 1] = MaxRow(t, MaxRows(bbox_max, others, @))],
                           others, <<0, 0, 0>>),
           largest |-> largest_label, m |-> M]

\* one iteration of the sweep over (k, j, i)
SweepSite ==
  /\ hk_pc = "sweep"
  /\ hk_pos < NElem(l)
  /\ IF l.mem[hk_pos + 1] = 0
     THEN /\ UNCHANGED <<l, n, bbox_min, bbox_max, largest_label, prev_label, prev_proper>>
          /\ hk_pc' = IF hk_pos + 1 = NElem(l) THEN "check" ELSE "sweep"
     ELSE LET R == LabelSite(hk_pos)
          IN /\ l' = [l EXCEPT !.mem = R.mem]
             /\ n' = R.n
             /\ bbox_min' = R.bmin
             /\ bbox_max' = R.bmax
             /\ largest_label' = R.largest
             /\ prev_label' = R.m.prev_label
             /\ prev_proper' = R.m.prev_proper
             /\ hk_pc' = IF R.err THEN "error"
                         ELSE IF hk_pos + 1 = NElem(l) THEN "check" ELSE "sweep"
  /\ hk_pos' = hk_pos + 1
  /\ UNCHANGED <<idx_head, flagged, hk_calls>>
  /\ UNCHANGED nonHKVars

\* the sites AllNeighbours reads inside the cube (outside it reports -1U)
AllNeighbours(L, p) ==
  {Lin(L, c[1], c[2], c[3]) :
     c \in {d \in ((RowOf(L, p) - 1)..(RowOf(L, p) + 1))
                  \X ((ColOf(L, p) - 1)..(ColOf(L, p) + 1))
                  \X ((SliceOf(L, p) - 1)..(SliceOf(L, p) + 1)) :
              /\ d # <<RowOf(L, p), ColOf(L, p), SliceOf(L, p)>>
              /\ d[1] >= 0 /\ d[1] < L.n_rows
              /\ d[2] >= 0 /\ d[2] < L.n_cols
              /\ d[3] >= 0 /\ d[3] < L.n_slices}}

\* void HKCheck(n, l): relabel every site by its proper label, then assert
HKCheck ==
  /\ hk_pc = "check"
  /\ LET R == TransformProper(l.mem, Machine, <<>>)
         L1 == [l EXCEPT !.mem = R.out]
         ok == \A p \in 0..(NElem(l) - 1) :
                 R.out[p + 1] # 0 =>
                   \A q \in AllNeighbours(L1, p) : R.out[q + 1] \in {0, R.out[p + 1]}
     IN /\ l' = L1
        /\ n' = R.m.n
        /\ prev_label' = R.m.prev_label
        /\ prev_proper' = R.m.prev_proper
        /\ hk_pc' = IF R.m.oob THEN "error"
                    ELSE IF ok THEN "percolate" ELSE "assert_failed"
  /\ UNCHANGED <<bbox_min, bbox_max, largest_label, idx_head, hk_pos, flagged, hk_calls>>
  /\ UNCHANGED nonHKVars

SetMax(S) == CHOOSE x \in S : \A y \in S : x >= y

AlwaysSpans(x) == TRUE

\* arma::prod(bbox_max.row(x) - bbox_min.row(x) + one) == l.n_elem
Spans(x) ==
  /\ bbox_min[x + 1] # Uninit
  /\ bbox_max[x + 1] # Uninit
  /\ (bbox_max[x + 1][1] - bbox_min[x + 1][1] + 1)
     * (bbox_max[x + 1][2] - bbox_min[x + 1][2] + 1)
     * (bbox_max[x + 1][3] - bbox_min[x + 1][3] + 1) = NElem(l)

\* a row never written holds whatever the allocation held
Garbage(x) == bbox_min[x + 1] = Uninit \/ bbox_max[x + 1] = Uninit

\* The walk over idx = sort_index(n, "descend") stops at the first entry whose
\* box does not span the cube.  Entries of equal size come in an order the
\* sort does not fix, and a never-written row may or may not seem to span.
\* The result is the set of labels 0..largest_label in idx.head(infinite_clusters);
\* labels never handed out are on no site and are left out.
RECURSIVE Heads(_, _)
Heads(vals, acc) ==
  IF vals = {} THEN {acc}
  ELSE LET v == SetMax(vals)
           g == {x \in 0..largest_label : n[x + 1] = v}
           must == {x \in g : Spans(x)}
           may == must \cup {x \in g : Garbage(x)}
           unused == v = 0 /\ largest_label + 1 < Len(n)
           goes_on == IF g \subseteq may THEN Heads(vals \ {v}, acc \cup g) ELSE {}
           stops == {acc \cup T : T \in {U \in SUBSET may : (g \ U) \ must # {} \/ unused}}
       IN goes_on \cup stops

\* search for infinite clusters in descending order of cluster size
SearchInfiniteClusters ==
  /\ hk_pc = "percolate"
  /\ idx_head' \in Heads({n[x + 1] : x \in 0..largest_label}, {})
  /\ hk_pc' = "eliminate"
  /\ UNCHANGED <<l, n, bbox_min, bbox_max, largest_label, prev_label, prev_proper,
                 hk_pos, flagged, hk_calls>>
  /\ UNCHANGED nonHKVars

\* eliminate clusters that are not connected to the infinite clusters
EliminateFiniteClusters ==
  /\ hk_pc = "eliminate"
  /\ LET R == TransformProper(l.mem, Machine, <<>>)
     IN /\ l' = [l EXCEPT !.mem = [q \in 1..Len(l.mem) |->
                                    IF R.out[q] \in idx_head THEN 1 ELSE 0]]
        /\ n' = R.m.n
        /\ prev_label' = R.m.prev_label
        /\ prev_proper' = R.m.prev_proper
        /\ hk_pc' = IF R.m.oob THEN "error" ELSE "done"
  /\ UNCHANGED <<bbox_min, bbox_max, largest_label, idx_head, hk_pos, flagged, hk_calls>>
  /\ UNCHANGED nonHKVars

\* EnhancedHoshenKopelman called once more in the same process, on the cube
\* the call before it left in l: n, the boxes and largest_label are locals
\* of the call and start afresh, the statics of HKProper keep their values
CallOnOutput ==
  /\ hk_pc = "done"
  /\ hk_calls = 1
  /\ flagged' = l
  /\ n' = [q \in 1..(NElem(l) \div 2) |-> 0]
  /\ bbox_min' = [q \in 1..(NElem(l) \div 2) |-> Uninit]
  /\ bbox_max' = [q \in 1..(NElem(l) \div 2) |-> Uninit]
  /\ largest_label' = 0
  /\ idx_head' = {}
  /\ hk_pc' = "sweep"
  /\ hk_pos' = 0
  /\ hk_calls' = 2
  /\ UNCHANGED <<l, prev_label, prev_proper>>
  /\ UNCHANGED nonHKVars

HKNext ==
  \/ SweepSite
  \/ HKCheck
  \/ SearchInfiniteClusters
  \/ EliminateFiniteClusters
  \/ CallOnOutput

(***************************************************************************)
(* What the labelling is measured against: the 26-connected components of  *)
(* the flagged sites of the cube as it was passed in.                      *)
(***************************************************************************)
Flagged == {p \in 0..(NElem(flagged) - 1) : flagged.mem[p + 1] # 0}

RECURSIVE Grow(_, _)
Grow(seen, frontier) ==
  IF frontier = {} THEN seen
  ELSE LET nxt == ((UNION {AllNeighbours(flagged, p) : p \in frontier}) \cap Flagged) \ seen
       IN Grow(seen \cup nxt, nxt)

Component(p) == Grow({p}, {p})

Extent(S, Coord(_, _)) ==
  SetMax({Coord(flagged, p) : p \in S}) - SetMin({Coord(flagged, p) : p \in S}) + 1

ComponentPercolates(S) ==
  Extent(S, RowOf) * Extent(S, ColOf) * Extent(S, SliceOf) = NElem(flagged)

(***************************************************************************)
(* =================  BinaryHeap (key based, used by the IFT)  =========== *)
(* src/skeleton/heaps/binary_heap.h with TKey = SkeletonizerKey.  A queue  *)
(* value is Q = [el, map, fail]; fail records a thrown exception.          *)
(***************************************************************************)
\* SkeletonizerKey(): the maximum key.  Its distance and counter are the
\* largest values of their types; -1 stands for them here, and SkLess orders
\* that value above every other one.
MaximumKey == [distance |-> -1, counter |-> -1, point |-> 0]

LessUnsigned(a, b) == IF a = -1 THEN FALSE ELSE IF b = -1 THEN TRUE ELSE a < b

\* a comparison of keys by distance alone
SkLessByDistance(a, b) == LessUnsigned(a.distance, b.distance)

\* SkeletonizerKey::operator<
SkLess(a, b) ==
  LessUnsigned(a.distance, b.distance)
  \/ (a.distance = b.distance /\ LessUnsigned(a.counter, b.counter))

\* keys are hashed and compared by (distance, counter)
MapKey(k) == <<k.distance, k.counter>>

MapErase(mp, k) == [x \in (DOMAIN mp) \ {MapKey(k)} |-> mp[x]]

\* unordered_map::insert leaves an existing entry alone
MapInsert(mp, k, index) ==
  IF MapKey(k) \in DOMAIN mp THEN mp
  ELSE [x \in (DOMAIN mp) \cup {MapKey(k)} |-> IF x = MapKey(k) THEN index ELSE mp[x]]

\* std::swap of two slots followed by the two key_to_index_.at(..) = .. writes
BHSwap(Q, index, other) ==
  LET el2 == [Q.el EXCEPT ![index + 1] = Q.el[other + 1], ![other + 1] = Q.el[index + 1]]
      k1 == MapKey(el2[index + 1])
      k2 == MapKey(el2[other + 1])
  IN IF k1 \notin DOMAIN Q.map THEN [el |-> el2, map |-> Q.map, fail |-> TRUE]
     ELSE IF k2 \notin DOMAIN Q.map
          THEN [el |-> el2, map |-> [Q.map EXCEPT ![k1] = index], fail |-> TRUE]
          ELSE [el |-> el2, map |-> [Q.map EXCEPT ![k1] = index, ![k2] = other],
                fail |-> FALSE]

RECURSIVE BHMinHeapify(_, _)
BHMinHeapify(Q, index) ==
  LET left == Left(index)
      right == Right(index)
      s1 == IF left < Len(Q.el) /\ SkLess(Q.el[left + 1], Q.el[index + 1])
            THEN left ELSE index
      smallest == IF right < Len(Q.el) /\ SkLess(Q.el[right + 1], Q.el[s1 + 1])
                  THEN right ELSE s1
  IN IF Q.fail \/ smallest = index THEN Q
     ELSE BHMinHeapify(BHSwap(Q, index, smallest), smallest)

RECURSIVE BHSiftUp(_, _)
BHSiftUp(Q, index) ==
  IF ~Q.fail /\ index > 0 /\ SkLess(Q.el[index + 1], Q.el[Parent(index) + 1])
  THEN BHSiftUp(BHSwap(Q, index, Parent(index)), Parent(index))
  ELSE Q

\* void IncreasePriority(size_type index, const TKey& new_priority)
IncreasePriorityAt(Q, index, new_priority) ==
  IF Q.fail THEN Q
  ELSE IF index >= Len(Q.el) THEN [Q EXCEPT !.fail = TRUE]
  ELSE IF SkLess(Q.el[index + 1], new_priority) THEN [Q EXCEPT !.fail = TRUE]
  ELSE BHSiftUp([el |-> [Q.el EXCEPT ![index + 1] = new_priority],
                 map |-> MapInsert(MapErase(Q.map, Q.el[index + 1]), new_priority, index),
                 fail |-> FALSE],
                index)

\* void IncreasePriority(const TKey& old_priority, const TKey& new_priority)
IncreasePriority(Q, old_priority, new_priority) ==
  IF Q.fail THEN Q
  ELSE IF SkLess(old_priority, new_priority) THEN [Q EXCEPT !.fail = TRUE]
  ELSE IF MapKey(old_priority) \notin DOMAIN Q.map THEN [Q EXCEPT !.fail = TRUE]
  ELSE IncreasePriorityAt(Q, Q.map[MapKey(old_priority)], new_priority)

\* void Insert(const TKey& key)
Insert(Q, key) ==
  IF Q.fail THEN Q
  ELSE IncreasePriorityAt([Q EXCEPT !.el = Append(Q.el, MaximumKey)], Len(Q.el), key)

\* a Remove that leaves the first key in the queue
RemoveLeavesFirst(Q) == Q

\* const TKey Remove(), on a queue that has elements
Remove(Q) ==
  LET last == Q.el[Len(Q.el)]
      el1 == [q \in 1..(Len(Q.el) - 1) |-> IF q = 1 THEN last ELSE Q.el[q]]
  IN BHMinHeapify([el |-> el1, map |-> MapErase(Q.map, Q.el[1]), fail |-> Q.fail], 0)

EmptyQueue == [el |-> <<>>, map |-> <<>>, fail |-> FALSE]

\* bounds of the calls a caller makes on its BinaryHeap: the entries in the
\* heap, and the keys built
BHMaxInserts == 3
BHMaxCalls == 5

\* no caller drives a BinaryHeap of its own
BHIdle == bh_ret = [op |-> "idle"]

\* the key a caller builds for a call, GetKey(distance, point): the counter is
\* the next counter value.  The point of an entry is named by the Insert that
\* brought it, <<counter value, distance>> of the key of that Insert, so that
\* points are in the order of insertion.
BHKey(d, point) == [distance |-> d, counter |-> counter_value_, point |-> point]

\* the outcome of a call: a throw leaves the caller with the heap as the
\* call left it, and the caller goes on
AfterCall(Q1, op, old_priority, key) ==
  /\ queue' = [Q1 EXCEPT !.fail = FALSE]
  /\ bh_ret' = [op |-> op, throws |-> Q1.fail, old |-> old_priority, key |-> key]
  /\ counter_value_' = counter_value_ + 1
  /\ UNCHANGED <<image_, annotations_, ift_pc>>
  /\ UNCHANGED <<hvars, hkvars, clvars, gvars, netvars>>

\* void Insert(const TKey& key), the key built with the next counter value
BHInsert(d) ==
  /\ bh_ret.op # "idle"
  /\ Len(queue.el) < BHMaxInserts
  /\ counter_value_ < BHMaxCalls
  /\ AfterCall(Insert(queue, BHKey(d, <<counter_value_, d>>)), "Insert", MaximumKey,
               BHKey(d, <<counter_value_, d>>))

\* void IncreasePriority(size_type index, const TKey& new_priority)
BHIncreasePriorityAt(index, d) ==
  /\ bh_ret.op # "idle"
  /\ index < Len(queue.el)
  /\ counter_value_ < BHMaxCalls
  /\ AfterCall(IncreasePriorityAt(queue, index, BHKey(d, queue.el[index + 1].point)),
               "IncreasePriorityAt", queue.el[index + 1],
               BHKey(d, queue.el[index + 1].point))

\* void IncreasePriority(const TKey& old_priority, const TKey& new_priority),
\* old_priority a key of the heap and new_priority a key of the same point
BHIncreasePriority(index, d) ==
  /\ bh_ret.op # "idle"
  /\ index < Len(queue.el)
  /\ counter_value_ < BHMaxCalls
  /\ AfterCall(IncreasePriority(queue, queue.el[index + 1],
                                BHKey(d, queue.el[index + 1].point)),
               "IncreasePriority", queue.el[index + 1],
               BHKey(d, queue.el[index + 1].point))

\* const TKey Remove() on a heap that has elements
BHRemove ==
  /\ bh_ret.op # "idle"
  /\ queue.el # <<>>
  /\ queue' = [Remove(queue) EXCEPT !.fail = FALSE]
  /\ bh_ret' = [op |-> "Remove", throws |-> Remove(queue).fail, old |-> queue.el[1],
                key |-> queue.el[1]]
  /\ UNCHANGED <<image_, annotations_, counter_value_, ift_pc>>
  /\ UNCHANGED <<hvars, hkvars, clvars, gvars, netvars>>

BHNext ==
  \/ \E d \in 0..MaxPriority : BHInsert(d)
  \/ \E index \in 0..(BHMaxInserts - 1), d \in 0..MaxPriority : BHIncreasePriorityAt(index, d)
  \/ \E index \in 0..(BHMaxInserts - 1), d \in 0..MaxPriority : BHIncreasePriority(index, d)
  \/ BHRemove

(***************************************************************************)
(* ========================  SkeletonizerByIFT  ========================== *)
(* src/skeleton/skeletonizer_by_ift.h, with the contour calculator, the    *)
(* 26-neighbour calculator and the quadratic path calculator it is built   *)
(* with in centerline_includes.h.  A voxel is its linear index, x fastest. *)
(***************************************************************************)
\* the largest number of solid voxels of the images of IFTShape
IFTMaxSolids == 2

IFTShape == <<3, 3, 2>>

Int32Max == 2147483647

Coords(img, p) == <<RowOf(img, p), ColOf(img, p), SliceOf(img, p)>>

\* TwentySixNeighbourCalculator::GetNeighbours: dx, dy, dz from -1 to 1 with
\* dz fastest, the centre left out; points off the image are never object or
\* contour points and are dropped here
Offsets26 ==
  [q \in 1..27 |-> <<((q - 1) \div 9) - 1, (((q - 1) \div 3) % 3) - 1, ((q - 1) % 3) - 1>>]

RECURSIVE NeighboursFrom(_, _, _)
NeighboursFrom(img, p, q) ==
  IF q > 27 THEN <<>>
  ELSE LET c == <<RowOf(img, p) + Offsets26[q][1], ColOf(img, p) + Offsets26[q][2],
                  SliceOf(img, p) + Offsets26[q][3]>>
           inside == /\ q # 14
                     /\ c[1] >= 0 /\ c[1] < img.n_rows
                     /\ c[2] >= 0 /\ c[2] < img.n_cols
                     /\ c[3] >= 0 /\ c[3] < img.n_slices
       IN (IF inside THEN <<Lin(img, c[1], c[2], c[3])>> ELSE <<>>)
          \o NeighboursFrom(img, p, q + 1)

GetNeighbours(img, p) == NeighboursFrom(img, p, 1)

IsObjectPoint(img, p) == img.mem[p + 1] = 0

\* TernaryImage::IsContourPoint
IsContourPoint(img, p) == img.mem[p + 1] = 1

\* Morphology::GetSurfaceToVolume on the cube of pores: a solid voxel with a
\* pore among its 26 neighbours is surface (1), any other solid is inner (2)
Ternary(shape, pores) ==
  LET img0 == Cube(shape, pores)
  IN [img0 EXCEPT !.mem = [q \in 1..NElem(img0) |->
        IF (q - 1) \in pores THEN 0
        ELSE IF \E r \in AllNeighbours(img0, q - 1) : r \in pores THEN 1 ELSE 2]]

\* Annotation(void)
DefaultAnnotation ==
  [has |-> FALSE, distance |-> Int32Max, displacements |-> <<Int32Max, Int32Max, Int32Max>>,
   contour_label |-> 0, pixel_label |-> 0, tag |-> 0, status |-> "initial", point |-> 0]

\* ContourCalculator::BuildContourFromPoint: breadth first over the contour
\* points; labeled is the list of [point, contour_label, pixel_label] so far
RECURSIVE BuildContourFromPoint(_, _, _, _, _)
BuildContourFromPoint(img, points_stack, contour_label, pixel_label, labeled) ==
  IF points_stack = <<>> THEN labeled
  ELSE LET current_point == points_stack[1]
           rest == Tail1(points_stack)
           fresh == /\ IsContourPoint(img, current_point)
                    /\ \A q \in 1..Len(labeled) : labeled[q].point # current_point
       IN IF fresh
          THEN BuildContourFromPoint(img,
                 rest \o SelectSeq(GetNeighbours(img, current_point),
                                   LAMBDA r : IsContourPoint(img, r)),
                 contour_label, pixel_label + 1,
                 Append(labeled, [point |-> current_point,
                                  contour_label |-> contour_label,
                                  pixel_label |-> pixel_label]))
          ELSE BuildContourFromPoint(img, rest, contour_label, pixel_label, labeled)

\* ContourCalculator::ComputeContours: scan the image, x fastest; starts is
\* the ascending list of the contour points not yet scanned
RECURSIVE ComputeContoursFrom(_, _, _, _)
ComputeContoursFrom(img, starts, contour_label, labeled) ==
  IF starts = <<>> THEN labeled
  ELSE LET built == BuildContourFromPoint(img, <<starts[1]>>, contour_label, 1, labeled)
       IN ComputeContoursFrom(img, Tail1(starts),
            IF Len(built) > Len(labeled) THEN contour_label + 1 ELSE contour_label, built)

\* the contour taken to be the pore voxels that touch a voxel that is not pore
\* or the outside of the image, in one contour in the order of the scan
ComputeContoursAmongPores(img) ==
  LET contour == SortedSeq({p \in 0..(NElem(img) - 1) :
                    /\ IsObjectPoint(img, p)
                    /\ \/ Len(GetNeighbours(img, p)) < 26
                       \/ \E r \in Range(GetNeighbours(img, p)) : ~IsObjectPoint(img, r)})
  IN [q \in 1..Len(contour) |->
        [point |-> contour[q], contour_label |-> 1, pixel_label |-> q]]

\* ContourCalculator::ComputeContours
ComputeContours(img) ==
  ComputeContoursFrom(img,
    SortedSeq({p \in 0..(NElem(img) - 1) : IsContourPoint(img, p)}), 1, <<>>)

\* QuadraticPathCalculator::GetConcatenatedPathCost
GetConcatenatedPathCost(origin, origin_annotation, neighbour, img) ==
  LET d == [c \in 1..3 |-> origin_annotation.displacements[c]
                           + Abs(Coords(img, neighbour)[c] - Coords(img, origin)[c])]
  IN d[1] * d[1] + d[2] * d[2] + d[3] * d[3]

UpdatePointPathCostNotSquared(origin, origin_annotation, neighbour, neighbour_annotation, img) ==
  LET d == [c \in 1..3 |-> origin_annotation.displacements[c]
                           + Abs(Coords(img, neighbour)[c] - Coords(img, origin)[c])]
  IN [neighbour_annotation EXCEPT
        !.displacements = <<d[1], d[2], d[3]>>,
        !.distance = d[1] + d[2] + d[3]]

\* QuadraticPathCalculator::UpdatePointPathCost
UpdatePointPathCost(origin, origin_annotation, neighbour, neighbour_annotation, img) ==
  LET d == [c \in 1..3 |-> origin_annotation.displacements[c]
                           + Abs(Coords(img, neighbour)[c] - Coords(img, origin)[c])]
  IN [neighbour_annotation EXCEPT
        !.displacements = <<d[1], d[2], d[3]>>,
        !.distance = d[1] * d[1] + d[2] * d[2] + d[3] * d[3]]

\* the skeletonizer value threaded through one call:
\* S = [ann |-> annotations_, q |-> queue, counter |-> counter_value_, fail]
\* void PropagateLabelToNeighbour(queue, origin, neighbour, origin_annotation)
PropagateLabelToNeighbour(S, origin, neighbour, origin_annotation) ==
  IF S.fail \/ S.q.fail THEN [S EXCEPT !.fail = TRUE]
  ELSE IF ~IsObjectPoint(image_, neighbour) THEN S
  ELSE LET annotation == S.ann[neighbour + 1]
           distance == GetConcatenatedPathCost(origin, origin_annotation, neighbour, image_)
           old_key == [distance |-> annotation.distance, counter |-> annotation.tag,
                       point |-> neighbour]
           key == [distance |-> distance, counter |-> S.counter, point |-> neighbour]
           updated == [UpdatePointPathCost(origin, origin_annotation, neighbour,
                                           annotation, image_)
                         EXCEPT !.contour_label = origin_annotation.contour_label,
                                !.pixel_label = origin_annotation.pixel_label,
                                !.point = origin_annotation.point,
                                !.tag = key.counter,
                                !.status = "inserted",
                                !.has = TRUE]
       IN IF annotation.status = "removed" THEN S
          ELSE IF ~(distance < annotation.distance) THEN S
          ELSE IF annotation.status # "inserted"
          THEN LET Q1 == Insert(S.q, key)
               IN [ann |-> IF annotation.has THEN S.ann
                           ELSE [S.ann EXCEPT ![neighbour + 1] = updated],
                   q |-> Q1, counter |-> S.counter + 1,
                   fail |-> Q1.fail \/ annotation.has]
          ELSE LET Q1 == IncreasePriority(S.q, old_key, key)
               IN [ann |-> IF Q1.fail \/ ~annotation.has THEN S.ann
                           ELSE [S.ann EXCEPT ![neighbour + 1] = updated],
                   q |-> Q1, counter |-> S.counter + 1,
                   fail |-> Q1.fail \/ ~annotation.has]

\* void PropagateLabelToNeighboursIfApplicable(queue, point, point_annotation)
RECURSIVE PropagateFrom(_, _, _, _)
PropagateFrom(S, point, point_annotation, neighbours) ==
  IF neighbours = <<>> THEN S
  ELSE PropagateFrom(PropagateLabelToNeighbour(S, point, neighbours[1], point_annotation),
                     point, point_annotation, Tail1(neighbours))

\* the loop of InitialiseAndEnqueueSeedPoints over the labelled contour points
RECURSIVE EnqueueSeedPoints(_, _)
EnqueueSeedPoints(S, labeled) ==
  IF labeled = <<>> THEN S
  ELSE LET point == labeled[1].point
           key == [distance |-> 0, counter |-> S.counter, point |-> point]
           Q1 == Insert(S.q, key)
       IN EnqueueSeedPoints(
            [ann |-> [S.ann EXCEPT ![point + 1] =
                        [has |-> TRUE, distance |-> 0, displacements |-> <<0, 0, 0>>,
                         contour_label |-> labeled[1].contour_label,
                         pixel_label |-> labeled[1].pixel_label,
                         tag |-> key.counter, status |-> "inserted", point |-> point]],
             q |-> Q1, counter |-> S.counter + 1, fail |-> S.fail \/ Q1.fail],
            Tail1(labeled))

\* the 14 x 8 x 1 image with the three solid voxels (11,0), (12,2), (13,6)
WideImage == Ternary(<<14, 8, 1>>, Cells(<<14, 8, 1>>) \ {11, 12 + 14 * 2, 13 + 14 * 6})

\* the 3 x 3 x 3 image in which every voxel is pore
AllPoreCube == Ternary(<<3, 3, 3>>, Cells(<<3, 3, 3>>))

IFTImages ==
  {Ternary(IFTShape, Cells(IFTShape) \ T) : T \in UpToK(Cells(IFTShape), IFTMaxSolids)}
  \cup {WideImage, AllPoreCube}

IFTInit ==
  /\ image_ \in IFTImages
  /\ annotations_ = [q \in 1..NElem(image_) |-> DefaultAnnotation]
  /\ queue = EmptyQueue
  /\ counter_value_ = 0
  /\ ift_pc = "start"

IFTIdle ==
  /\ image_ = Cube(<<1, 1, 1>>, {})
  /\ annotations_ = <<>>
  /\ queue = EmptyQueue
  /\ counter_value_ = 0
  /\ ift_pc = "idle"

SkeletonizerNow == [ann |-> annotations_, q |-> queue, counter |-> counter_value_,
                    fail |-> FALSE]

\* void InitialiseAndEnqueueSeedPoints(heap& queue)
InitialiseAndEnqueueSeedPoints ==
  /\ ift_pc = "start"
  /\ LET S == EnqueueSeedPoints(SkeletonizerNow, ComputeContours(image_))
     IN /\ annotations_' = S.ann
        /\ queue' = S.q
        /\ counter_value_' = S.counter
        /\ ift_pc' = IF S.fail THEN "exception"
                     ELSE IF S.q.el = <<>> THEN "done" ELSE "iterate"
  /\ UNCHANGED image_
  /\ UNCHANGED nonIFTVars

\* one iteration of the loop of ExecuteIftIterations
ExecuteIftIteration ==
  /\ ift_pc = "iterate"
  /\ LET key == queue.el[1]
         point == key.point
         Q1 == Remove(queue)
         annotation == [annotations_[point + 1] EXCEPT !.status = "removed"]
         S0 == [ann |-> [annotations_ EXCEPT ![point + 1] = annotation],
                q |-> Q1, counter |-> counter_value_,
                fail |-> Q1.fail \/ ~annotations_[point + 1].has]
         S == PropagateFrom(S0, point, annotation, GetNeighbours(image_, point))
     IN /\ annotations_' = S.ann
        /\ queue' = S.q
        /\ counter_value_' = S.counter
        /\ ift_pc' = IF S.fail \/ S.q.fail THEN "exception"
                     ELSE IF S.q.el = <<>> THEN "done" ELSE "iterate"
  /\ UNCHANGED image_
  /\ UNCHANGED nonIFTVars

IFTNext ==
  \/ InitialiseAndEnqueueSeedPoints
  \/ ExecuteIftIteration

\* squared Euclidean distance between two voxels of the image
SquaredDistance(img, a, b) ==
  (RowOf(img, a) - RowOf(img, b)) * (RowOf(img, a) - RowOf(img, b))
  + (ColOf(img, a) - ColOf(img, b)) * (ColOf(img, a) - ColOf(img, b))
  + (SliceOf(img, a) - SliceOf(img, b)) * (SliceOf(img, a) - SliceOf(img, b))

Pores == {p \in 0..(NElem(image_) - 1) : IsObjectPoint(image_, p)}

Seeds == {p \in 0..(NElem(image_) - 1) : IsContourPoint(image_, p)}

(***************************************************************************)
(* ===========================  Centerlines  ============================= *)
(* src/skeleton/centerline_includes.h: the skeletonizer's image and        *)
(* annotations are turned into a SpeedGraph, MaximalClustersDiscoverer     *)
(* labels the clusters of local maxima, CenterpointDiscoverer gives the    *)
(* source and end points, Dijkstra::ExecuteGradient runs from a source and *)
(* CenterlineSet extracts the paths and splits them at the branch points.  *)
(* The doubles of the router are fixed-point integers, Scale to the unit.  *)
(***************************************************************************)
\* the largest number of pore voxels of the images of CLShape
CLMaxPores == 4

\* the fixed-point unit of the distances and penalties
Scale == 10000

CLShape == <<3, 3, 1>>

\* std::numeric_limits<uint64_t>::max() of Annotation::max_counter_value_:
\* a value above every counter a run hands out
MaxCounterValue == 2147483647

\* WeightCalculator::InfiniteDistance()
InfiniteDistance == Int32Max

\* Point::IsFaceNeighbour and its siblings: the sum of the axis differences,
\* -1 when some axis differs by more than one
NeighbourDiff(a, b) ==
  LET d == [c \in 1..3 |-> Abs(Coords(image_, a)[c] - Coords(image_, b)[c])]
  IN IF \E c \in 1..3 : d[c] > 1 THEN -1 ELSE d[1] + d[2] + d[3]

IsFaceNeighbour(a, b) == NeighbourDiff(a, b) = 1

IsEdgeNeighbour(a, b) == NeighbourDiff(a, b) = 2

IsVertexNeighbour(a, b) == NeighbourDiff(a, b) = 3

IsNeighbour(a, b) == NeighbourDiff(a, b) <= 3 /\ NeighbourDiff(a, b) >= 1

\* SpeedGraphBuilder::Build: the vertices are the annotated object points,
\* the property value of a vertex is its annotated distance
HasVertex(p) == IsObjectPoint(image_, p) /\ annotations_[p + 1].has

PropertyValue(p) == annotations_[p + 1].distance

\* every graph vertex instead of the 26-neighbours that are graph vertices
GetVertexNeighboursAnywhere(p) ==
  SelectSeq(SortedSeq(0..(NElem(image_) - 1)), LAMBDA r : r # p /\ HasVertex(r))

\* SpeedGraph::GetVertexNeighbours with VertexNeighbourCalculator::GetNeighbours
GetVertexNeighbours(p) ==
  SelectSeq(GetNeighbours(image_, p), LAMBDA r : annotations_[r + 1].has /\ HasVertex(r))

\* SpeedGraph::IsLocalMaximalVertex
IsLocalMaximalVertex(p) ==
  \A r \in Range(GetVertexNeighbours(p)) :
    IsVertexNeighbour(r, p) \/ ~(PropertyValue(r) > PropertyValue(p))

\* SpeedGraphIterator: begin() looks for the first vertex below the last
\* index and throws when there is none; ++ then visits every vertex in
\* ascending index order
GetFirstValidIndexThrows == ~\E index \in 0..(NElem(image_) - 2) : HasVertex(index)

GraphKeys == SortedSeq({p \in 0..(NElem(image_) - 1) : HasVertex(p)})

\* LabelVertexCluster going on through the vertex-diagonal neighbours too
RECURSIVE LabelVertexClusterAcrossCorners(_, _, _)
LabelVertexClusterAcrossCorners(ids, bfs_queue, label_value) ==
  IF bfs_queue = <<>> THEN ids
  ELSE LET ref_key == bfs_queue[1]
           ids1 == [ids EXCEPT ![ref_key + 1] = label_value]
           pushed == SelectSeq(GetVertexNeighbours(ref_key),
                       LAMBDA v : /\ IsLocalMaximalVertex(v)
                                  /\ ids1[v + 1] = -1)
           ids2 == [q \in 1..Len(ids1) |->
                      IF (q - 1) \in Range(pushed) THEN label_value ELSE ids1[q]]
       IN LabelVertexClusterAcrossCorners(ids2, Tail1(bfs_queue) \o pushed, label_value)

\* MaximalClustersDiscoverer::LabelVertexCluster: ids is cluster_id_ by voxel
RECURSIVE LabelVertexCluster(_, _, _)
LabelVertexCluster(ids, bfs_queue, label_value) ==
  IF bfs_queue = <<>> THEN ids
  ELSE LET ref_key == bfs_queue[1]
           ids1 == [ids EXCEPT ![ref_key + 1] = label_value]
           pushed == SelectSeq(GetVertexNeighbours(ref_key),
                       LAMBDA v : /\ ~IsVertexNeighbour(v, ref_key)
                                  /\ IsLocalMaximalVertex(v)
                                  /\ ids1[v + 1] = -1)
           ids2 == [q \in 1..Len(ids1) |->
                      IF (q - 1) \in Range(pushed) THEN label_value ELSE ids1[q]]
       IN LabelVertexCluster(ids2, Tail1(bfs_queue) \o pushed, label_value)

\* the loop of MaximalClustersDiscoverer::Execute over the graph
RECURSIVE ExecuteFrom(_, _, _)
ExecuteFrom(keys, ids, next_label) ==
  IF keys = <<>> THEN [ids |-> ids, num_of_labels |-> next_label]
  ELSE IF IsLocalMaximalVertex(keys[1]) /\ ids[keys[1] + 1] = -1
       THEN ExecuteFrom(Tail1(keys), LabelVertexCluster(ids, <<keys[1]>>, next_label),
                        next_label + 1)
       ELSE ExecuteFrom(Tail1(keys), ids, next_label)

\* MaximalClustersDiscoverer::GetPairKey
GetPairKey(label_a, label_b) == Min2(label_a, label_b) * num_of_labels + Max2(label_a, label_b)

\* MaximalClustersDiscoverer::GetClusterLabel
GetClusterLabel(p) == IF HasVertex(p) THEN cluster_id_[p + 1] ELSE -1

\* TwentySixNeighbourCalculator::GetNeighboursInPlane
GetNeighboursInPlane(p, direction) ==
  SelectSeq(GetNeighbours(image_, p),
            LAMBDA r : Coords(image_, r)[direction + 1] = Coords(image_, p)[direction + 1])

\* CenterpointDiscoverer::UpdateMaxAndEnqueueNeighbours: B = [max, center, queue]
RECURSIVE UpdateMaxAndEnqueueNeighbours(_, _, _)
UpdateMaxAndEnqueueNeighbours(B, neighbours, used) ==
  IF neighbours = <<>> THEN B
  ELSE LET neighbour == neighbours[1]
           skip == \/ ~IsObjectPoint(image_, neighbour)
                   \/ ~annotations_[neighbour + 1].has
                   \/ neighbour \in used
           B1 == IF skip THEN B
                 ELSE [max |-> Max2(B.max, PropertyValue(neighbour)),
                       center |-> IF PropertyValue(neighbour) > B.max
                                  THEN neighbour ELSE B.center,
                       queue |-> Append(B.queue, neighbour)]
       IN UpdateMaxAndEnqueueNeighbours(B1, Tail1(neighbours), used)

\* CenterpointDiscoverer::ComputeBoundedCenter: the loop over the queue
RECURSIVE ComputeBoundedCenter(_, _, _)
ComputeBoundedCenter(B, used, direction) ==
  IF B.queue = <<>> THEN [center |-> B.center, used |-> used]
  ELSE LET next_point == B.queue[1]
           B0 == [B EXCEPT !.queue = Tail1(B.queue)]
       IN IF next_point \in used THEN ComputeBoundedCenter(B0, used, direction)
          ELSE ComputeBoundedCenter(
                 UpdateMaxAndEnqueueNeighbours(B0, GetNeighboursInPlane(next_point, direction),
                                               used \cup {next_point}),
                 used \cup {next_point}, direction)

\* the loop of CenterpointDiscoverer::GetPoints over the annotated image; the
\* hash map is walked in the order of the linear index
RECURSIVE GetPointsFrom(_, _, _, _, _)
GetPointsFrom(points, direction, coordinate, used, output) ==
  IF points = <<>> THEN output
  ELSE LET point == points[1]
           skip == \/ ~IsObjectPoint(image_, point)
                   \/ Coords(image_, point)[direction + 1] # coordinate
                   \/ point \in used
           C == ComputeBoundedCenter([max |-> PropertyValue(point), center |-> point,
                                      queue |-> <<point>>], used, direction)
       IN IF skip THEN GetPointsFrom(Tail1(points), direction, coordinate, used, output)
          ELSE GetPointsFrom(Tail1(points), direction, coordinate, C.used,
                             Append(output, C.center))

GetPoints(direction, coordinate) ==
  GetPointsFrom(SortedSeq({p \in 0..(NElem(image_) - 1) : annotations_[p + 1].has}),
                direction, coordinate, {}, <<>>)

\* the sizes_ of the calculator
Sizes == <<image_.n_rows, image_.n_cols, image_.n_slices>>

\* CenterlineCalculator::GetSourcePoints
GetSourcePoints == GetPoints(0, 0) \o GetPoints(1, 0) \o GetPoints(2, 0)

\* CenterlineCalculator::GetEndPoints
GetEndPoints ==
  GetPoints(0, 0) \o GetPoints(0, Sizes[1] - 1) \o GetPoints(1, 0)
  \o GetPoints(1, Sizes[2] - 1) \o GetPoints(2, 0) \o GetPoints(2, Sizes[3] - 1)

\* CenterlineCalculator::GetDirection: the first direction in which the
\* point lies on a face of the image; -1 stands for the exception
RECURSIVE GetDirectionFrom(_, _)
GetDirectionFrom(point, index) ==
  IF index = 3 THEN -1
  ELSE IF \/ Coords(image_, point)[index + 1] = Sizes[index + 1] - 1
          \/ Coords(image_, point)[index + 1] = 0
  THEN index
  ELSE GetDirectionFrom(point, index + 1)

GetDirection(source_point) == GetDirectionFrom(source_point, 0)

\* CenterlineCalculator::FilterEnds, which no method of the calculator calls
FilterEnds(source, ends) ==
  SelectSeq(ends, LAMBDA end : Coords(image_, end)[GetDirection(source) + 1]
                                 # Coords(image_, source)[GetDirection(source) + 1])


\* Gradient::Compute(point, point_ignored): the sum over the neighbours
RECURSIVE ComputeSum(_, _, _)
ComputeSum(point, point_ignored, neighbours) ==
  IF neighbours = <<>> THEN <<0, 0, 0>>
  ELSE LET neighbour == neighbours[1]
           rest == ComputeSum(point, point_ignored, Tail1(neighbours))
           skip == \/ ~IsObjectPoint(image_, neighbour)
                   \/ neighbour = point_ignored
                   \/ IsVertexNeighbour(neighbour, point)
           distance == annotations_[neighbour + 1].distance
       IN IF skip THEN rest
          ELSE [c \in 1..3 |->
                  rest[c] + (Coords(image_, neighbour)[c] - Coords(image_, point)[c]) * distance]

\* Gradient::ComputeOnDemand(point, point_ignored).  Normalise divides by the
\* length when the squared length is above the tolerance, which for a vector
\* of integers is when the vector is not zero; the model keeps the vector of
\* integers and ComputeStepPenalty divides by its squared length
ComputeOnDemand(point, point_ignored) ==
  ComputeSum(point, point_ignored, GetNeighbours(image_, point))

DotProduct(point_a, point_b) ==
  point_a[1] * point_b[1] + point_a[2] * point_b[2] + point_a[3] * point_b[3]

\* Gradient::ComputeStepPenalty(from, to, gradient): 1 - (direction . gradient)^2
\* on the normalised vectors, in units of 1 / Scale
ComputeStepPenalty(from, to, gradient) ==
  LET direction == [c \in 1..3 |-> Coords(image_, to)[c] - Coords(image_, from)[c]]
      dot_product == DotProduct(direction, gradient)
      lengths == DotProduct(direction, direction) * DotProduct(gradient, gradient)
  IN IF lengths = 0 THEN Scale
     ELSE Scale - ((dot_product * dot_product * Scale) \div lengths)

\* Gradient::CreateGradientVector
CreateGradientVector(from, to) ==
  [c \in 1..3 |-> Coords(image_, from)[c] - Coords(image_, to)[c]]

\* Gradient::IsGradientSumZero on vectors of integers
IsGradientSumZero(gradient_a, gradient_b) ==
  \A c \in 1..3 : gradient_a[c] + gradient_b[c] = 0

\* WeightCalculator::GetWeight: 1.0 / (1.0 + second_property)
GetWeight(first, second) == Scale \div (1 + PropertyValue(second))

\* the largest r in lo..hi with r * r <= x
RECURSIVE SqrtBetween(_, _, _)
SqrtBetween(x, lo, hi) ==
  IF lo = hi THEN lo
  ELSE LET mid == (lo + hi + 1) \div 2
       IN IF mid * mid <= x THEN SqrtBetween(x, mid, hi) ELSE SqrtBetween(x, lo, mid - 1)

\* QuadraticPathCalculator::GetWeight: the square root of the squared
\* distance, taken to three decimals
GetPathWeight(point_first, point_second) ==
  (SqrtBetween(SquaredDistance(image_, point_first, point_second) * 1000000, 0, 46340)
   * Scale) \div 1000

\* Annotation(distance) of AnnotatedVertexHelper, with the counter it draws
NewAnnotation(distance, counter) ==
  [has |-> TRUE, distance |-> distance, predecessor |-> 0, has_predecessor |-> FALSE,
   counter_value_ |-> counter, tag |-> 0, is_removed |-> FALSE, cluster_id_ |-> -1]

\* a slot of a graph that holds no vertex
NoAnnotation ==
  [has |-> FALSE, distance |-> InfiniteDistance, predecessor |-> 0,
   has_predecessor |-> FALSE, counter_value_ |-> MaxCounterValue, tag |-> 0,
   is_removed |-> FALSE, cluster_id_ |-> -1]

\* Annotation(void): the annotation of the vertices of the graph
GraphAnnotation == [NoAnnotation EXCEPT !.has = TRUE]

\* the key the queue orders by: AnnotatedVertexHelper {vertex_key, annotation}
QueueKey(vertex_key, annotation) ==
  [is_empty |-> FALSE, distance |-> annotation.distance,
   counter |-> annotation.counter_value_, key |-> vertex_key]

\* the Dijkstra value threaded through one call:
\* D = [ag |-> annotated_graph_, acc |-> annotated_graph_accumulated_,
\*      pen |-> annotated_graph_acc_penalties_, lab |-> annotated_label_graph_,
\*      pairs |-> pair_labels_, cands |-> end_vertices_candidate_list_,
\*      H |-> the queue, counter |-> the annotation counter,
\*      dec |-> decreaseCounter_, fail |-> an exception was thrown]
\* Dijkstra::GetLabelPath
GetLabelPath(D, vertex_key) == D.lab[vertex_key + 1].cluster_id_

\* a test that takes every pair of labels as not yet visited
IsPairLabelsVisitedNever(pairs, label_a, label_b) == FALSE

\* Dijkstra::IsPairLabelsVisited
IsPairLabelsVisited(pairs, label_a, label_b) ==
  IF label_a = label_b THEN TRUE ELSE GetPairKey(label_a, label_b) \in pairs

\* Dijkstra::SetPairLabelsVisited: pair_labels_ after the call
SetPairLabelsVisited(pairs, label_a, label_b) ==
  IF label_a = label_b THEN pairs ELSE pairs \cup {GetPairKey(label_a, label_b)}

\* Dijkstra::SetPathLabel
SetPathLabel(D, vertex_key, label_value) ==
  LET D1 == IF ~D.lab[vertex_key + 1].has
            THEN [D EXCEPT !.lab[vertex_key + 1] = NewAnnotation(0, D.counter),
                           !.counter = D.counter + 1]
            ELSE D
  IN [D1 EXCEPT !.lab[vertex_key + 1].cluster_id_ = label_value]

\* Dijkstra::ComputeVerticeDistance: the path distance and the two
\* accumulated values it hands back
ComputeVerticeDistance(D, gradient, ref_key, cand_key, ref_acc, ref_acc_pen) ==
  LET annotated_ref == D.ag[ref_key + 1]
      turn == IF IsGradientSumZero(CreateGradientVector(annotated_ref.predecessor, ref_key),
                                   CreateGradientVector(cand_key, ref_key))
              THEN 0 ELSE Scale \div 2
      step == IF ~IsLocalMaximalVertex(cand_key)
              THEN ComputeStepPenalty(ref_key, cand_key, ComputeOnDemand(cand_key, ref_key))
              ELSE 0
      penalty_direction == (IF annotated_ref.has_predecessor THEN turn + step ELSE 0)
                           + GetPathWeight(ref_key, cand_key)
      Distances(weight, cand_accumulated_penalties, one) ==
        [path_distance |-> one + ref_acc_pen + cand_accumulated_penalties + 1000 * weight,
         cand_accumulated_distance |-> ref_acc + weight,
         cand_accumulated_penalties |-> cand_accumulated_penalties]
      From(weight) ==
        IF ~IsLocalMaximalVertex(ref_key)
        THEN Distances(weight,
                       (Scale \div 2)
                       + ((ComputeStepPenalty(ref_key, cand_key, gradient) * weight) \div Scale)
                       + weight,
                       Scale)
        ELSE Distances(weight, ((penalty_direction * weight) \div Scale) + weight, 0)
  IN From(GetWeight(ref_key, cand_key))

\* RelaxGradient with the candidate named as its own predecessor
RelaxGradientOntoItself(D, reference, candidate_key, gradient) ==
  LET ref_annotation_acc == D.acc[reference + 1]
      ref_accumulated == IF ref_annotation_acc.has_predecessor
                         THEN ref_annotation_acc.distance ELSE 0
      ref_annotation_acc_pen == D.pen[reference + 1]
      ref_accumulated_pen == IF ref_annotation_acc_pen.has_predecessor
                             THEN ref_annotation_acc_pen.distance ELSE 0
      Labelled(D1, new_label) ==
        SetPathLabel(D1, candidate_key,
                     IF new_label >= 0 THEN new_label ELSE GetLabelPath(D1, reference))
      Relaxed(cost) ==
        IF D.ag[candidate_key + 1].distance > cost.path_distance
        THEN [relaxed |-> TRUE,
              D |-> Labelled(
                [D EXCEPT
                   !.ag[candidate_key + 1].distance = cost.path_distance,
                   !.ag[candidate_key + 1].predecessor = candidate_key,
                   !.ag[candidate_key + 1].has_predecessor = TRUE,
                   !.pen[candidate_key + 1].distance = cost.cand_accumulated_penalties,
                   !.pen[candidate_key + 1].predecessor = reference,
                   !.pen[candidate_key + 1].has_predecessor = TRUE,
                   !.acc[candidate_key + 1].distance = cost.cand_accumulated_distance,
                   !.acc[candidate_key + 1].predecessor = reference,
                   !.acc[candidate_key + 1].has_predecessor = TRUE],
                GetClusterLabel(candidate_key))]
        ELSE [relaxed |-> FALSE, D |-> D]
  IN Relaxed(ComputeVerticeDistance(D, gradient, reference, candidate_key,
                                    ref_accumulated, ref_accumulated_pen))

\* Dijkstra::RelaxGradient: whether the candidate was relaxed, and D after it
RelaxGradient(D, reference, candidate_key, gradient) ==
  LET ref_annotation_acc == D.acc[reference + 1]
      ref_accumulated == IF ref_annotation_acc.has_predecessor
                         THEN ref_annotation_acc.distance ELSE 0
      ref_annotation_acc_pen == D.pen[reference + 1]
      ref_accumulated_pen == IF ref_annotation_acc_pen.has_predecessor
                             THEN ref_annotation_acc_pen.distance ELSE 0
      Labelled(D1, new_label) ==
        SetPathLabel(D1, candidate_key,
                     IF new_label >= 0 THEN new_label ELSE GetLabelPath(D1, reference))
      Relaxed(cost) ==
        IF D.ag[candidate_key + 1].distance > cost.path_distance
        THEN [relaxed |-> TRUE,
              D |-> Labelled(
                [D EXCEPT
                   !.ag[candidate_key + 1].distance = cost.path_distance,
                   !.ag[candidate_key + 1].predecessor = reference,
                   !.ag[candidate_key + 1].has_predecessor = TRUE,
                   !.pen[candidate_key + 1].distance = cost.cand_accumulated_penalties,
                   !.pen[candidate_key + 1].predecessor = reference,
                   !.pen[candidate_key + 1].has_predecessor = TRUE,
                   !.acc[candidate_key + 1].distance = cost.cand_accumulated_distance,
                   !.acc[candidate_key + 1].predecessor = reference,
                   !.acc[candidate_key + 1].has_predecessor = TRUE],
                GetClusterLabel(candidate_key))]
        ELSE [relaxed |-> FALSE, D |-> D]
  IN Relaxed(ComputeVerticeDistance(D, gradient, reference, candidate_key,
                                    ref_accumulated, ref_accumulated_pen))


\* the test of the inner loop of BuildValidList: vertex_key rules the
\* candidate out
RulesOut(vertex_key, candidate, predecessor, reference) ==
  /\ ~IsVertexNeighbour(vertex_key, reference)
  /\ vertex_key # predecessor
  /\ vertex_key # candidate
  /\ \/ /\ IsFaceNeighbour(vertex_key, reference)
        /\ PropertyValue(vertex_key) > PropertyValue(reference)
     \/ /\ PropertyValue(vertex_key) > PropertyValue(reference)
        /\ IsEdgeNeighbour(vertex_key, predecessor) \/ IsFaceNeighbour(vertex_key, predecessor)
        /\ IsEdgeNeighbour(vertex_key, candidate) \/ IsFaceNeighbour(vertex_key, candidate)

\* Dijkstra::BuildValidList
BuildValidList(predecessor, reference) ==
  LET Passing(neighbours) ==
        SelectSeq(neighbours,
                  LAMBDA candidate : /\ ~IsVertexNeighbour(candidate, reference)
                                     /\ ~IsFaceNeighbour(candidate, predecessor))
      Valid(neighbours, passing) ==
        SelectSeq(passing,
                  LAMBDA candidate :
                    \A vertex_key \in Range(neighbours) :
                      ~RulesOut(vertex_key, candidate, predecessor, reference))
      Pick(valid_list, relaxed_valid_list, neighbours) ==
        IF valid_list # <<>> THEN valid_list
        ELSE IF relaxed_valid_list # <<>> THEN relaxed_valid_list
        ELSE neighbours
      Lists(neighbours, passing) ==
        IF IsLocalMaximalVertex(reference)
        THEN Pick(passing, <<>>, neighbours)
        ELSE Pick(Valid(neighbours, passing), passing, neighbours)
      From(neighbours) == Lists(neighbours, Passing(neighbours))
  IN From(GetVertexNeighbours(reference))

\* Dijkstra::BuildValidNeighbours
BuildValidNeighbours(D, reference) ==
  IF D.ag[reference + 1].has_predecessor
  THEN BuildValidList(D.ag[reference + 1].predecessor, reference)
  ELSE GetVertexNeighbours(reference)

\* the body of the loop of RelaxNeighboursGradient for one valid neighbour
RelaxNeighbour(D, reference, vertex_key, gradient) ==
  LET new_vertex == ~D.ag[vertex_key + 1].has
      Inserted ==
        IF new_vertex
        THEN [D EXCEPT
                !.ag[vertex_key + 1] = NewAnnotation(InfiniteDistance, D.counter),
                !.acc[vertex_key + 1] = NewAnnotation(InfiniteDistance, D.counter + 1),
                !.pen[vertex_key + 1] = NewAnnotation(InfiniteDistance, D.counter + 2),
                !.counter = D.counter + 3]
        ELSE D
      Visit(D1, ref_label, vertex_label) ==
        IF /\ ~IsPairLabelsVisited(D1.pairs, ref_label, vertex_label)
           /\ ComputeStepPenalty(reference, vertex_key,
                                 ComputeOnDemand(vertex_key, reference)) < Scale \div 10
        THEN [D1 EXCEPT !.pairs = SetPairLabelsVisited(D1.pairs, ref_label, vertex_label),
                        !.cands = Append(D1.cands, <<reference, vertex_key>>)]
        ELSE D1
      Put(D2, inserted) ==
        [D2 EXCEPT !.H = inserted.H, !.ag[vertex_key + 1].tag = inserted.handle,
                   !.dec = D2.dec + 1]
      Decrease(D2, tag, key) ==
        IF tag = 0 \/ DecreaseThrows(D2.H, tag, key)
        THEN [D2 EXCEPT !.fail = TRUE]
        ELSE [D2 EXCEPT !.H = DecreasePriorityBody(D2.H, tag, key), !.dec = D2.dec + 1]
      Requeue(D2, key) ==
        IF new_vertex THEN Put(D2, InsertKey(D2.H, key))
        ELSE Decrease(D2, D2.ag[vertex_key + 1].tag, key)
      Relaxed(R) ==
        IF ~R.relaxed THEN R.D
        ELSE Requeue(R.D, QueueKey(vertex_key, R.D.ag[vertex_key + 1]))
      Step(D1) ==
        IF D1.ag[vertex_key + 1].is_removed
        THEN Visit(D1, GetLabelPath(D1, reference), GetLabelPath(D1, vertex_key))
        ELSE Relaxed(RelaxGradient(D1, reference, vertex_key, gradient))
  IN IF D.fail THEN D ELSE Step(Inserted)

\* the loop of RelaxNeighboursGradient over the valid neighbours
RECURSIVE RelaxEach(_, _, _, _)
RelaxEach(D, reference, valid_neighbours, gradient) ==
  IF valid_neighbours = <<>> THEN D
  ELSE RelaxEach(RelaxNeighbour(D, reference, valid_neighbours[1], gradient),
                 reference, Tail1(valid_neighbours), gradient)

\* Dijkstra::RelaxNeighboursGradient
RelaxNeighboursGradient(D, reference) ==
  LET annotated_ref == D.ag[reference + 1]
      valid_neighbours == BuildValidNeighbours(D, reference)
      gradient == IF ~annotated_ref.has_predecessor
                  THEN ComputeOnDemand(reference, reference)
                  ELSE ComputeOnDemand(reference, annotated_ref.predecessor)
      D0 == IF ~annotated_ref.has_predecessor THEN D
            ELSE [D EXCEPT !.pairs =
                    SetPairLabelsVisited(D.pairs, GetLabelPath(D, reference),
                                         GetLabelPath(D, annotated_ref.predecessor))]
  IN RelaxEach(D0, reference, valid_neighbours, gradient)

\* Dijkstra::Initialise on a queue just constructed; the source is
\* vertex_type{source_point}, whose annotation is Annotation(void)
Initialise(D, source) ==
  LET copy == [GraphAnnotation EXCEPT !.distance = 0]
      inserted == InsertKey([el |-> <<>>, hs |-> <<>>], QueueKey(source, copy))
      cleared == [q \in 1..Len(D.ag) |-> NoAnnotation]
  IN SetPathLabel([D EXCEPT !.ag = [cleared EXCEPT ![source + 1] =
                                      [copy EXCEPT !.tag = inserted.handle]],
                            !.H = inserted.H,
                            !.dec = 1,
                            !.lab = cleared],
                  source, GetClusterLabel(source))


\* CenterLineNode
Node(point, annotation) == [point |-> point, distance |-> annotation.distance]

\* the CenterlineSet value threaded through GetSegments:
\* S = [builder |-> the nodes of the builder, centerlines |-> the segments
\*      closed so far, used |-> used_nodes_, branch |-> branch_nodes_,
\*      is_building, add_prev, ret |-> what HandleNewNode returned]
\* CenterlineSet::HandleNewNode
HandleNewNode(S, point, annotation, prev_point, prev_annotation) ==
  IF point \notin S.used
  THEN [S EXCEPT
          !.builder = (IF ~S.is_building
                       THEN Append(S.builder, Node(prev_point, prev_annotation))
                       ELSE S.builder) \o <<Node(point, annotation)>>,
          !.add_prev = ~S.is_building,
          !.is_building = TRUE,
          !.ret = TRUE]
  ELSE IF S.builder # <<>>
  THEN [S EXCEPT
          !.centerlines = IF S.is_building
                          THEN Append(S.centerlines,
                                      Append(S.builder, Node(point, annotation)))
                          ELSE S.centerlines,
          !.builder = IF S.is_building THEN <<>> ELSE S.builder,
          !.add_prev = FALSE,
          !.is_building = FALSE,
          !.ret = FALSE]
  ELSE [S EXCEPT !.add_prev = FALSE, !.is_building = FALSE, !.ret = FALSE]

\* the loop of CenterlineSet::GetSegments and the step that adds the source
RECURSIVE GetSegmentsFrom(_, _, _, _, _)
GetSegmentsFrom(S, annotated_graph, point, prev_point, is_end_point) ==
  LET annotation == annotated_graph[point + 1]
      prev_annotation == annotated_graph[prev_point + 1]
      S1 == HandleNewNode(S, point, annotation, prev_point, prev_annotation)
      closed == ~S1.ret /\ S.is_building /\ ~S1.is_building /\ ~is_end_point
      branch == S1.branch \cup (IF closed THEN {point} ELSE {})
                          \cup (IF S1.add_prev THEN {prev_point} ELSE {})
  IN IF annotation.has_predecessor
     THEN GetSegmentsFrom([S1 EXCEPT !.branch = branch, !.used = S1.used \cup {point}],
                          annotated_graph, annotation.predecessor, point, FALSE)
     ELSE IF S1.ret
     THEN [S1 EXCEPT !.branch = S1.branch \cup (IF S1.add_prev THEN {prev_point} ELSE {}),
                     !.centerlines = Append(S1.centerlines, S1.builder),
                     !.used = S1.used \cup {point}]
     ELSE S1

\* CenterlineSet::GetSegments: the segments, used_nodes_ and branch_nodes_
GetSegments(used, branch, annotated_graph, end_point) ==
  GetSegmentsFrom([builder |-> <<>>, centerlines |-> <<>>, used |-> used,
                   branch |-> branch, is_building |-> TRUE, add_prev |-> FALSE,
                   ret |-> FALSE],
                  annotated_graph, end_point, end_point, TRUE)

\* Statistics::GetSize
RECURSIVE GetSize(_)
GetSize(centerline) ==
  IF Len(centerline) < 2 THEN 0
  ELSE GetPathWeight(centerline[Len(centerline)].point,
                     centerline[Len(centerline) - 1].point)
       + GetSize(SubSeq(centerline, 1, Len(centerline) - 1))

\* the centerline set C = [paths, statistics, used, branch]
\* CenterlineSet::AddPathsAndStatistics
AddPathsAndStatistics(C, S) ==
  [paths |-> C.paths \o S.centerlines,
   statistics |-> C.statistics \o [q \in 1..Len(S.centerlines) |-> GetSize(S.centerlines[q])],
   used |-> S.used, branch |-> S.branch]

\* CenterlineSet::AddSet(annotated_graph, graph, end_point)
AddSet(C, annotated_graph, end_point) ==
  IF ~annotated_graph[end_point + 1].has THEN C
  ELSE IF ~(annotated_graph[end_point + 1].distance < InfiniteDistance) THEN C
  ELSE AddPathsAndStatistics(C, GetSegments(C.used, C.branch, annotated_graph, end_point))

\* the two loops of CenterlineSet::BuildLMpath: the vertices pushed after
\* the first, from the given top
RECURSIVE WalkToMaximal(_, _)
WalkToMaximal(annotated_graph, top) ==
  IF ~annotated_graph[top + 1].has_predecessor THEN <<>>
  ELSE IF IsLocalMaximalVertex(top) THEN <<>>
  ELSE <<annotated_graph[top + 1].predecessor>>
       \o WalkToMaximal(annotated_graph, annotated_graph[top + 1].predecessor)

Reverse(s) == [q \in 1..Len(s) |-> s[Len(s) + 1 - q]]

\* CenterlineSet::BuildLMpath
BuildLMpath(annotated_graph, vertex_a, vertex_b) ==
  Reverse(<<vertex_a>> \o WalkToMaximal(annotated_graph, vertex_a))
  \o <<vertex_b>> \o WalkToMaximal(annotated_graph, vertex_b)

\* CenterlineSet::CheckProperty3
CheckProperty3(vertex_i, vertex_i1, vertex_i2) ==
  /\ ~(IsEdgeNeighbour(vertex_i, vertex_i2) \/ IsFaceNeighbour(vertex_i, vertex_i2))
  /\ IsEdgeNeighbour(vertex_i, vertex_i1) \/ IsFaceNeighbour(vertex_i, vertex_i1)
  /\ IsEdgeNeighbour(vertex_i1, vertex_i2) \/ IsFaceNeighbour(vertex_i1, vertex_i2)

\* CenterlineSet::CheckProperty4
CheckProperty4(vertex_i, vertex_i1, vertex_i2, neighbour) ==
  ~(/\ IsFaceNeighbour(neighbour, vertex_i1)
    /\ ~IsLocalMaximalVertex(neighbour)
    /\ neighbour # vertex_i
    /\ neighbour # vertex_i2
    /\ PropertyValue(neighbour) > PropertyValue(vertex_i1))

\* CenterlineSet::CheckProperty5
CheckProperty5(vertex_i, vertex_i1, vertex_i2, vertex_key) ==
  ~(/\ IsFaceNeighbour(vertex_key, vertex_i1) \/ IsEdgeNeighbour(vertex_key, vertex_i1)
    /\ ~IsFaceNeighbour(vertex_key, vertex_i)
    /\ ~IsEdgeNeighbour(vertex_key, vertex_i)
    /\ vertex_key # vertex_i1
    /\ vertex_key # vertex_i
    /\ PropertyValue(vertex_key) > PropertyValue(vertex_i2))

\* CenterlineSet::CheckPropertyThin
CheckPropertyThin(used, vertex_0, vertex_i1, vertex_m, neighbour) ==
  ~(/\ IsFaceNeighbour(neighbour, vertex_i1)
    /\ neighbour # vertex_0
    /\ neighbour # vertex_m
    /\ vertex_i1 \in used)

\* the tests ValidateLMpath makes on one neighbour of the middle vertex of
\* a path of three vertices
ValidTriple(used, lm_path, vertex_key) ==
  /\ CheckPropertyThin(used, lm_path[1], lm_path[2], lm_path[3], vertex_key)
  /\ ~(/\ IsFaceNeighbour(vertex_key, lm_path[2])
       /\ vertex_key # lm_path[1]
       /\ vertex_key # lm_path[3]
       /\ PropertyValue(vertex_key) > PropertyValue(lm_path[2]))
  /\ ~(/\ ~IsVertexNeighbour(vertex_key, lm_path[2])
       /\ vertex_key # lm_path[2]
       /\ vertex_key # lm_path[1]
       /\ PropertyValue(vertex_key) > PropertyValue(lm_path[3]))

\* the tests ValidateLMpath makes at position i (from 0) of a longer path
ValidAt(used, lm_path, i) ==
  /\ CheckProperty3(lm_path[i + 1], lm_path[i + 2], lm_path[i + 3])
  /\ \A vertex_key \in Range(GetVertexNeighbours(lm_path[i + 2])) :
       /\ CheckPropertyThin(used, lm_path[1], lm_path[i + 2], lm_path[Len(lm_path)],
                            vertex_key)
       /\ CheckProperty4(lm_path[i + 1], lm_path[i + 2], lm_path[i + 3], vertex_key)
       /\ IF \/ PropertyValue(lm_path[i + 1]) < PropertyValue(lm_path[i + 2])
             \/ PropertyValue(lm_path[i + 2]) < PropertyValue(lm_path[i + 3])
          THEN CheckProperty5(lm_path[i + 1], lm_path[i + 2], lm_path[i + 3], vertex_key)
          ELSE CheckProperty5(lm_path[i + 3], lm_path[i + 2], lm_path[i + 1], vertex_key)

\* CenterlineSet::ValidateLMpath
ValidateLMpath(used, lm_path) ==
  IF lm_path[1] = lm_path[Len(lm_path)] THEN FALSE
  ELSE IF Len(lm_path) = 3
  THEN /\ CheckProperty3(lm_path[1], lm_path[2], lm_path[3])
       /\ \A vertex_key \in Range(GetVertexNeighbours(lm_path[2])) :
            ValidTriple(used, lm_path, vertex_key)
  ELSE IF Len(lm_path) > 3
  THEN \A i \in 0..(Len(lm_path) - 4) : ValidAt(used, lm_path, i)
  ELSE FALSE

\* CenterlineSet::AddSet(annotated_graph, graph, vertex_a, vertex_b)
AddSetPair(C, annotated_graph, vertex_a, vertex_b) ==
  IF ValidateLMpath(C.used, BuildLMpath(annotated_graph, vertex_a, vertex_b))
  THEN LET S_a == GetSegments(C.used, C.branch, annotated_graph, vertex_a)
           S_b == GetSegments(S_a.used, S_a.branch, annotated_graph, vertex_b)
       IN AddPathsAndStatistics(AddPathsAndStatistics(C, S_a), S_b)
  ELSE C

\* the two loops of CenterlineCalculator::ExecuteSingleComputation
RECURSIVE AddSetsOfEnds(_, _, _)
AddSetsOfEnds(C, annotated_graph, ends) ==
  IF ends = <<>> THEN C
  ELSE AddSetsOfEnds(AddSet(C, annotated_graph, ends[1]), annotated_graph, Tail1(ends))

RECURSIVE AddSetsOfPairs(_, _, _)
AddSetsOfPairs(C, annotated_graph, pairs) ==
  IF pairs = <<>> THEN C
  ELSE AddSetsOfPairs(AddSetPair(C, annotated_graph, pairs[1][1], pairs[1][2]),
                      annotated_graph, Tail1(pairs))

\* Centerline::split that leaves the line it is called on whole
splitKeepsWhole(nodes_, index) ==
  IF index = 0 \/ index = Len(nodes_) - 1
  THEN [nodes_ |-> nodes_, new_nodes |-> <<>>]
  ELSE [nodes_ |-> nodes_,
        new_nodes |-> SubSeq(nodes_, index + 1, Len(nodes_))]

\* Centerline::split(index): the line after the call and the line returned
split(nodes_, index) ==
  IF index = 0 \/ index = Len(nodes_) - 1
  THEN [nodes_ |-> nodes_, new_nodes |-> <<>>]
  ELSE [nodes_ |-> SubSeq(nodes_, 1, index + 1),
        new_nodes |-> SubSeq(nodes_, index + 1, Len(nodes_))]

\* the inner loop of SplitByBranchPoints from position i of the path
RECURSIVE SplitPath(_, _, _)
SplitPath(path, i, branch) ==
  IF i = Len(path) THEN [nodes_ |-> path, new_nodes |-> <<>>]
  ELSE IF path[i + 1].point \in branch /\ Len(split(path, i).new_nodes) > 0
  THEN split(path, i)
  ELSE SplitPath(path, i + 1, branch)

\* an outer loop that cuts the lines and forgets the lines cut off
RECURSIVE SplitPathsDroppingTails(_, _, _)
SplitPathsDroppingTails(paths, j, branch) ==
  IF j = Len(paths) THEN paths
  ELSE LET R == SplitPath(paths[j + 1], 0, branch)
       IN SplitPathsDroppingTails([paths EXCEPT ![j + 1] = R.nodes_], j + 1, branch)

\* the outer loop of SplitByBranchPoints from path j, over the growing set
RECURSIVE SplitPaths(_, _, _)
SplitPaths(paths, j, branch) ==
  IF j = Len(paths) THEN paths
  ELSE LET R == SplitPath(paths[j + 1], 0, branch)
       IN SplitPaths([paths EXCEPT ![j + 1] = R.nodes_]
                       \o (IF R.new_nodes = <<>> THEN <<>> ELSE <<R.new_nodes>>),
                     j + 1, branch)

\* CenterlineSet::SplitByBranchPoints: paths_ after the call
SplitByBranchPoints(paths, branch) == SplitPaths(paths, 0, branch)


\* the 2 x 2 x 2 image whose pore voxels are two opposite corners
DiagonalCube == Ternary(<<2, 2, 2>>, {0, 7})

\* a 4 x 4 x 1 image whose two solid voxels 5 and 10 the paths of the router
\* go around, so that paths of different labels meet
TwoSolidsSquare == Ternary(<<4, 4, 1>>, Cells(<<4, 4, 1>>) \ {5, 10})

\* the images the centerline pipeline is run on: every 3 x 3 x 1 image with
\* at most CLMaxPores pore voxels, the cube of the two corners and the
\* square of the two solids
CLImages ==
  {Ternary(CLShape, T) : T \in UpToK(Cells(CLShape), CLMaxPores)}
    \cup {DiagonalCube, TwoSolidsSquare}

NoGraph == <<>>

CLInit ==
  /\ image_ \in CLImages
  /\ annotations_ = [q \in 1..NElem(image_) |-> DefaultAnnotation]
  /\ queue = EmptyQueue
  /\ counter_value_ = 0
  /\ ift_pc = "start"
  /\ elements_ = <<>>
  /\ handles = <<>>
  /\ decreaseCounter_ = 0
  /\ removeCounter_ = 0
  /\ hcounter = 0
  /\ hret = [op |-> "none"]
  /\ cluster_id_ = <<>>
  /\ num_of_labels = 0
  /\ source_points = <<>>
  /\ end_points = <<>>
  /\ annotated_graph_ = NoGraph
  /\ annotated_graph_accumulated_ = NoGraph
  /\ annotated_graph_acc_penalties_ = NoGraph
  /\ annotated_label_graph_ = NoGraph
  /\ pair_labels_ = {}
  /\ end_vertices_candidate_list_ = <<>>
  /\ paths_ = <<>>
  /\ statistics_ = <<>>
  /\ used_nodes_ = {}
  /\ branch_nodes_ = {}
  /\ source_index = 0
  /\ executed_sources = <<>>
  /\ cl_pc = "skeleton"

CLIdle ==
  /\ cluster_id_ = <<>>
  /\ num_of_labels = 0
  /\ source_points = <<>>
  /\ end_points = <<>>
  /\ annotated_graph_ = NoGraph
  /\ annotated_graph_accumulated_ = NoGraph
  /\ annotated_graph_acc_penalties_ = NoGraph
  /\ annotated_label_graph_ = NoGraph
  /\ pair_labels_ = {}
  /\ end_vertices_candidate_list_ = <<>>
  /\ paths_ = <<>>
  /\ statistics_ = <<>>
  /\ used_nodes_ = {}
  /\ branch_nodes_ = {}
  /\ source_index = 0
  /\ executed_sources = <<>>
  /\ cl_pc = "idle"

DijkstraNow ==
  [ag |-> annotated_graph_, acc |-> annotated_graph_accumulated_,
   pen |-> annotated_graph_acc_penalties_, lab |-> annotated_label_graph_,
   pairs |-> pair_labels_, cands |-> end_vertices_candidate_list_,
   H |-> HeapNow, counter |-> hcounter, dec |-> decreaseCounter_, fail |-> FALSE]

CenterlineSetNow ==
  [paths |-> paths_, statistics |-> statistics_, used |-> used_nodes_,
   branch |-> branch_nodes_]

\* the copy of the graph the constructor of Dijkstra takes
GraphCopy == [q \in 1..NElem(image_) |-> IF HasVertex(q - 1) THEN GraphAnnotation
                                         ELSE NoAnnotation]

dijkstraVars == <<annotated_graph_, annotated_graph_accumulated_,
                  annotated_graph_acc_penalties_, annotated_label_graph_,
                  pair_labels_, end_vertices_candidate_list_>>

setVars == <<paths_, statistics_, used_nodes_, branch_nodes_>>

\* CenterlineCalculator::ComputeCenterlines up to the call of
\* ComputeForSources: the clusters, the router, the source and end points
ComputeCenterlines ==
  /\ ift_pc = "done"
  /\ cl_pc = "skeleton"
  /\ IF GetFirstValidIndexThrows
     THEN /\ cl_pc' = "exception"
          /\ UNCHANGED <<cluster_id_, num_of_labels, source_points, end_points,
                         dijkstraVars, source_index>>
     ELSE LET R == ExecuteFrom(GraphKeys, [q \in 1..NElem(image_) |-> -1], 0)
          IN /\ cluster_id_' = R.ids
             /\ num_of_labels' = R.num_of_labels
             /\ annotated_graph_' = GraphCopy
             /\ annotated_graph_accumulated_' = GraphCopy
             /\ annotated_graph_acc_penalties_' = GraphCopy
             /\ annotated_label_graph_' = GraphCopy
             /\ pair_labels_' = {}
             /\ end_vertices_candidate_list_' = <<>>
             /\ source_points' = GetSourcePoints
             /\ end_points' = GetEndPoints
             /\ source_index' = 0
             /\ cl_pc' = "sources"
  /\ UNCHANGED <<setVars, executed_sources>>
  /\ UNCHANGED <<hvars, iftvars>>
  /\ UNCHANGED nonCLVars

\* the head of the loop of ComputeForSources with the first lines of
\* ExecuteGradient: past the last source the loop ends, a source off the
\* graph is skipped, any other source starts a run
ComputeForSources ==
  /\ cl_pc = "sources"
  /\ IF source_index = Len(source_points)
     THEN /\ cl_pc' = "split"
          /\ UNCHANGED <<dijkstraVars, hvars, source_index, executed_sources>>
     ELSE IF ~HasVertex(source_points[source_index + 1])
     THEN /\ source_index' = source_index + 1
          /\ cl_pc' = "sources"
          /\ UNCHANGED <<dijkstraVars, hvars, executed_sources>>
     ELSE LET source == source_points[source_index + 1]
              D == Initialise(DijkstraNow, source)
          IN /\ annotated_graph_' = D.ag
             /\ annotated_label_graph_' = D.lab
             /\ elements_' = D.H.el
             /\ handles' = D.H.hs
             /\ decreaseCounter_' = D.dec
             /\ removeCounter_' = 0
             /\ hcounter' = D.counter
             /\ hret' = [op |-> "Insert", handle |-> 1]
             /\ executed_sources' = Append(executed_sources, source)
             /\ cl_pc' = "dijkstra"
             /\ UNCHANGED <<annotated_graph_accumulated_, annotated_graph_acc_penalties_,
                            pair_labels_, end_vertices_candidate_list_, source_index>>
  /\ UNCHANGED <<cluster_id_, num_of_labels, source_points, end_points, setVars>>
  /\ UNCHANGED iftvars
  /\ UNCHANGED nonCLVars

\* what one iteration of the loop of ExecuteGradient leaves, the queue H
\* being the queue after Remove and minimum the key Remove returned
AfterRemove(H, minimum) ==
  LET Store(D) ==
        /\ annotated_graph_' = D.ag
        /\ annotated_graph_accumulated_' = D.acc
        /\ annotated_graph_acc_penalties_' = D.pen
        /\ annotated_label_graph_' = D.lab
        /\ pair_labels_' = D.pairs
        /\ end_vertices_candidate_list_' = D.cands
        /\ elements_' = D.H.el
        /\ handles' = D.H.hs
        /\ decreaseCounter_' = D.dec
        /\ hcounter' = D.counter
        /\ cl_pc' = IF D.fail THEN "exception"
                    ELSE IF D.H.el = <<>> THEN "add_sets" ELSE "dijkstra"
        /\ removeCounter_' = removeCounter_ + 1
  IN Store(RelaxNeighboursGradient(
             [DijkstraNow EXCEPT !.H = H, !.ag[minimum.key + 1].is_removed = TRUE],
             minimum.key))

\* one iteration of the loop of ExecuteGradient, the queue holding more than
\* one entry
ExecuteGradientIteration ==
  /\ cl_pc = "dijkstra"
  /\ HeapSize(HeapNow) > 1
  /\ LET R == RemoveFirst(HeapNow)
     IN /\ AfterRemove(R.H, R.minimum)
        /\ hret' = [op |-> "Remove", minimum |-> R.minimum, uaf |-> FALSE]
  /\ UNCHANGED <<cluster_id_, num_of_labels, source_points, end_points, setVars,
                 source_index, executed_sources>>
  /\ UNCHANGED iftvars
  /\ UNCHANGED nonCLVars

\* one iteration of the loop of ExecuteGradient, the queue holding exactly
\* one entry: Remove writes through the handle it has just deleted, and the
\* run either goes on with an empty queue or the process aborts
ExecuteGradientLastEntry ==
  /\ cl_pc = "dijkstra"
  /\ HeapSize(HeapNow) = 1
  /\ LET first == elements_[1]
         minimum == handles[first].priority
     IN \E outcome \in {"goes_on", "aborts"} :
          IF outcome = "goes_on"
          THEN /\ AfterRemove([el |-> <<>>,
                               hs |-> [handles EXCEPT ![first].live = FALSE,
                                                      ![first].index = 0]],
                              minimum)
               /\ hret' = [op |-> "Remove", minimum |-> minimum, uaf |-> TRUE]
          ELSE /\ elements_' = <<>>
               /\ handles' = [handles EXCEPT ![first].live = FALSE]
               /\ hret' = [op |-> "abort"]
               /\ cl_pc' = "aborted"
               /\ UNCHANGED <<dijkstraVars, decreaseCounter_, removeCounter_, hcounter>>
  /\ UNCHANGED <<cluster_id_, num_of_labels, source_points, end_points, setVars,
                 source_index, executed_sources>>
  /\ UNCHANGED iftvars
  /\ UNCHANGED nonCLVars

\* the rest of ExecuteSingleComputation after ExecuteGradient returned true:
\* AddSet for every end point, then for every pair of the candidate list;
\* ComputeForSources then leaves its loop
ExecuteSingleComputation ==
  /\ cl_pc = "add_sets"
  /\ LET C1 == AddSetsOfEnds(CenterlineSetNow, annotated_graph_, end_points)
         C == AddSetsOfPairs(C1, annotated_graph_, end_vertices_candidate_list_)
     IN /\ paths_' = C.paths
        /\ statistics_' = C.statistics
        /\ used_nodes_' = C.used
        /\ branch_nodes_' = C.branch
  /\ cl_pc' = "split"
  /\ UNCHANGED <<cluster_id_, num_of_labels, source_points, end_points, dijkstraVars,
                 source_index, executed_sources>>
  /\ UNCHANGED <<hvars, iftvars>>
  /\ UNCHANGED nonCLVars

\* centerlines.SplitByBranchPoints() at the end of ComputeForSources
SplitByBranchPointsCall ==
  /\ cl_pc = "split"
  /\ LET paths == SplitByBranchPoints(paths_, branch_nodes_)
     IN /\ paths_' = paths
        /\ statistics_' = [q \in 1..Len(paths) |-> GetSize(paths[q])]
  /\ cl_pc' = "done"
  /\ UNCHANGED <<cluster_id_, num_of_labels, source_points, end_points, dijkstraVars,
                 used_nodes_, branch_nodes_, source_index, executed_sources>>
  /\ UNCHANGED <<hvars, iftvars>>
  /\ UNCHANGED nonCLVars

\* the loop of ExecuteGradient from a queue the run has filled to the empty
\* queue, the Remove of the last entry going on
RECURSIVE ExecuteGradientLoop(_)
ExecuteGradientLoop(D) ==
  IF D.fail \/ D.H.el = <<>> THEN D
  ELSE LET first == D.H.el[1]
           minimum == D.H.hs[first].priority
           H1 == IF HeapSize(D.H) > 1 THEN RemoveFirst(D.H).H
                 ELSE [el |-> <<>>,
                       hs |-> [D.H.hs EXCEPT ![first].live = FALSE, ![first].index = 0]]
       IN ExecuteGradientLoop(
            RelaxNeighboursGradient(
              [D EXCEPT !.H = H1, !.ag[minimum.key + 1].is_removed = TRUE], minimum.key))

\* bool ExecuteGradient(source, gradient_calculator), the source in the graph
ExecuteGradient(D, source) == ExecuteGradientLoop(Initialise(D, source))

\* the Dijkstra object as its constructor leaves it
FreshDijkstra ==
  [ag |-> GraphCopy, acc |-> GraphCopy, pen |-> GraphCopy, lab |-> GraphCopy,
   pairs |-> {}, cands |-> <<>>, H |-> [el |-> <<>>, hs |-> <<>>],
   counter |-> hcounter, dec |-> 0, fail |-> FALSE]

\* a caller runs ExecuteGradient a second time on the Dijkstra object, from a
\* vertex of the graph, once ComputeCenterlines is through with it.  The
\* Remove of the last entry of the queue either goes on or aborts.
ExecuteGradientAgain(source) ==
  /\ cl_pc = "done"
  /\ Len(executed_sources) = 1
  /\ HasVertex(source)
  /\ \E outcome \in {"goes_on", "aborts"} :
       IF outcome = "goes_on"
       THEN LET D == ExecuteGradient(DijkstraNow, source)
            IN /\ annotated_graph_' = D.ag
               /\ annotated_graph_accumulated_' = D.acc
               /\ annotated_graph_acc_penalties_' = D.pen
               /\ annotated_label_graph_' = D.lab
               /\ pair_labels_' = D.pairs
               /\ end_vertices_candidate_list_' = D.cands
               /\ elements_' = D.H.el
               /\ handles' = D.H.hs
               /\ decreaseCounter_' = D.dec
               /\ removeCounter_' = Cardinality({q \in 1..Len(D.ag) : D.ag[q].is_removed})
               /\ hcounter' = D.counter
               /\ hret' = [op |-> "ExecuteGradient"]
               /\ cl_pc' = IF D.fail THEN "exception" ELSE "again"
       ELSE /\ hret' = [op |-> "abort"]
            /\ cl_pc' = "aborted"
            /\ UNCHANGED <<dijkstraVars, elements_, handles, decreaseCounter_,
                           removeCounter_, hcounter>>
  /\ executed_sources' = Append(executed_sources, source)
  /\ UNCHANGED <<cluster_id_, num_of_labels, source_points, end_points, setVars,
                 source_index>>
  /\ UNCHANGED iftvars
  /\ UNCHANGED nonCLVars

CLNext ==
  \/ InitialiseAndEnqueueSeedPoints
  \/ ExecuteIftIteration
  \/ ComputeCenterlines
  \/ ComputeForSources
  \/ ExecuteGradientIteration
  \/ ExecuteGradientLastEntry
  \/ ExecuteSingleComputation
  \/ SplitByBranchPointsCall
  \/ \E source \in 0..(NElem(image_) - 1) : ExecuteGradientAgain(source)

(***************************************************************************)
(* ====================  MemoryGraph and SpeedGraph  ===================== *)
(* src/skeleton/graph/memory_graph.h, speed_graph.h, speed_graph_iterator.h*)
(* with the builders of src/skeleton/centerline.  The image is a row of    *)
(* GSize object points, every one annotated; a vertex key is a point with  *)
(* its annotated distance as property value, keys are equal when their     *)
(* points are (Vertex::operator==).                                        *)
(***************************************************************************)
GSize == 3

GImage == Ternary(<<GSize, 1, 1>>, Cells(<<GSize, 1, 1>>))

\* the distance the image annotates the point p with
GDistance(p) == 1 + (p % 2)

\* vertex_key_type {point, distance} of the builders
GKey(p) == [point |-> p, property_value |-> GDistance(p)]

\* vertex_annotation_type {}
GDefaultAnnotation ==
  [distance |-> InfiniteDistance, is_local_maximal_set_ |-> FALSE, is_local_maximal_ |-> FALSE]

\* the annotations a caller inserts vertices with
GAnnotations ==
  {GDefaultAnnotation,
   [distance |-> 0, is_local_maximal_set_ |-> TRUE, is_local_maximal_ |-> FALSE]}

\* a key the unordered_map holds no entry for
NoVertex == [has |-> FALSE]

\* MemoryGraphBuilder::Build
MemoryGraphBuild ==
  [q \in 1..GSize |-> [has |-> TRUE, key |-> GKey(q - 1), annotation |-> GDefaultAnnotation]]

\* SpeedGraphBuilder::Build
SpeedGraphBuild ==
  [vs |-> [q \in 1..GSize |-> [key |-> GKey(q - 1), annotation |-> GDefaultAnnotation]],
   has |-> [q \in 1..GSize |-> TRUE]]

\* MemoryGraph::HasVertex
MemoryHasVertex(M, p) == M[p + 1].has

\* MemoryGraph::Insert: unordered_map::insert leaves an entry of the key alone
MemoryInsert(M, p, a) ==
  IF M[p + 1].has THEN M
  ELSE [M EXCEPT ![p + 1] = [has |-> TRUE, key |-> GKey(p), annotation |-> a]]

\* MemoryGraph::Remove
MemoryRemove(M, p) == [M EXCEPT ![p + 1] = NoVertex]

\* MemoryGraph::Clear
MemoryClear(M) == [q \in 1..GSize |-> NoVertex]

\* MemoryGraph::operator[]: unordered_map::at throws std::out_of_range
MemoryGet(M, p) ==
  IF M[p + 1].has THEN [fails |-> FALSE, value |-> M[p + 1].annotation]
  ELSE [fails |-> TRUE]

\* MemoryGraph::GetVertexNeighbours
MemoryGetVertexNeighbours(M, p) ==
  IF ~MemoryHasVertex(M, p) THEN [fails |-> TRUE]
  ELSE [fails |-> FALSE,
        value |-> SelectSeq(GetNeighbours(GImage, p), LAMBDA r : MemoryHasVertex(M, r))]

\* Point::IsVertexNeighbour on the points of GImage
GIsVertexNeighbour(a, b) ==
  \A c \in 1..3 : Abs(Coords(GImage, a)[c] - Coords(GImage, b)[c]) = 1

\* the loop over the neighbours in IsLocalMaximalVertex
NoGreaterNeighbour(neighbours, p) ==
  \A r \in Range(neighbours) :
    GIsVertexNeighbour(r, p) \/ ~(GDistance(r) > GDistance(p))

\* MemoryGraph::IsLocalMaximalVertex
MemoryIsLocalMaximalVertex(M, p) ==
  IF ~MemoryHasVertex(M, p) THEN [fails |-> TRUE]
  ELSE IF M[p + 1].annotation.is_local_maximal_set_
       THEN [fails |-> FALSE, value |-> M[p + 1].annotation.is_local_maximal_]
       ELSE [fails |-> FALSE,
             value |-> NoGreaterNeighbour(MemoryGetVertexNeighbours(M, p).value, p)]

\* for (pair : graph) over a MemoryGraph: the entries of the unordered_map
MemoryIterate(M) ==
  [fails |-> FALSE,
   value |-> {[key |-> M[q].key, annotation |-> M[q].annotation] :
                q \in {r \in 1..GSize : M[r].has}}]

\* SpeedGraph::HasVertex
SpeedHasVertex(S, p) == S.has[p + 1]

\* SpeedGraph::Insert: the slot of the key is written whatever it holds
SpeedInsert(S, p, a) ==
  [vs |-> [S.vs EXCEPT ![p + 1] = [key |-> GKey(p), annotation |-> a]],
   has |-> [S.has EXCEPT ![p + 1] = TRUE]]

\* SpeedGraph::Remove
SpeedRemove(S, p) == [S EXCEPT !.has[p + 1] = FALSE]

\* SpeedGraph::Clear
SpeedClear(S) == [S EXCEPT !.has = [q \in 1..GSize |-> FALSE]]

\* SpeedGraph::operator[]
SpeedGet(S, p) ==
  IF S.has[p + 1] THEN [fails |-> FALSE, value |-> S.vs[p + 1].annotation]
  ELSE [fails |-> TRUE]

\* SpeedGraph::GetVertexNeighbours
SpeedGetVertexNeighbours(S, p) ==
  IF ~SpeedHasVertex(S, p) THEN [fails |-> TRUE]
  ELSE [fails |-> FALSE,
        value |-> SelectSeq(GetNeighbours(GImage, p), LAMBDA r : SpeedHasVertex(S, r))]

\* SpeedGraph::IsLocalMaximalVertex
SpeedIsLocalMaximalVertex(S, p) ==
  IF ~SpeedHasVertex(S, p) THEN [fails |-> TRUE]
  ELSE IF S.vs[p + 1].annotation.is_local_maximal_set_
       THEN [fails |-> FALSE, value |-> S.vs[p + 1].annotation.is_local_maximal_]
       ELSE [fails |-> FALSE,
             value |-> NoGreaterNeighbour(SpeedGetVertexNeighbours(S, p).value, p)]

\* SpeedGraphIterator::GetFirstValidIndex: the indices below LastIndex()
FirstValidIndices(S) == {index \in 0..(GSize - 2) : S.has[index + 1]}

\* SpeedGraphIterator::operator++ from the index `from` to the end
RECURSIVE VisitFrom(_, _)
VisitFrom(S, from) ==
  IF from > GSize - 1 THEN {}
  ELSE (IF S.has[from + 1] THEN {S.vs[from + 1]} ELSE {}) \cup VisitFrom(S, from + 1)

\* for (pair : graph) over a SpeedGraph: begin() is noexcept and builds an
\* iterator at GetFirstValidIndex(), which throws when it finds no vertex
SpeedIterate(S) ==
  IF FirstValidIndices(S) = {} THEN [fails |-> TRUE]
  ELSE [fails |-> FALSE, value |-> VisitFrom(S, SetMin(FirstValidIndices(S)))]

SpeedNow == [vs |-> speed_vertex_set_, has |-> has_annotation_list_]

\* no caller holds a pair of graphs
GraphIdle ==
  /\ memory_vertex_set_ = <<>>
  /\ speed_vertex_set_ = <<>>
  /\ has_annotation_list_ = <<>>
  /\ g_ret = [op |-> "idle"]

\* both graphs as their builders return them
GraphInit ==
  /\ memory_vertex_set_ = MemoryGraphBuild
  /\ speed_vertex_set_ = SpeedGraphBuild.vs
  /\ has_annotation_list_ = SpeedGraphBuild.has
  /\ g_ret = [op |-> "Build"]

\* a call that changes the graphs
GraphChange(op, p, M1, S1) ==
  /\ memory_vertex_set_' = M1
  /\ speed_vertex_set_' = S1.vs
  /\ has_annotation_list_' = S1.has
  /\ g_ret' = [op |-> op, point |-> p, memory |-> [fails |-> FALSE],
               speed |-> [fails |-> FALSE]]
  /\ UNCHANGED nonGraphVars

\* a call that asks the graphs
GraphAsk(op, p, memory, speed) ==
  /\ g_ret' = [op |-> op, point |-> p, memory |-> memory, speed |-> speed]
  /\ UNCHANGED <<memory_vertex_set_, speed_vertex_set_, has_annotation_list_>>
  /\ UNCHANGED nonGraphVars

GraphInsert(p, a) ==
  GraphChange("Insert", p, MemoryInsert(memory_vertex_set_, p, a), SpeedInsert(SpeedNow, p, a))

GraphRemove(p) ==
  GraphChange("Remove", p, MemoryRemove(memory_vertex_set_, p), SpeedRemove(SpeedNow, p))

GraphClear ==
  GraphChange("Clear", 0, MemoryClear(memory_vertex_set_), SpeedClear(SpeedNow))

GraphHasVertex(p) ==
  GraphAsk("HasVertex", p, [fails |-> FALSE, value |-> MemoryHasVertex(memory_vertex_set_, p)],
           [fails |-> FALSE, value |-> SpeedHasVertex(SpeedNow, p)])

GraphGet(p) ==
  GraphAsk("Get", p, MemoryGet(memory_vertex_set_, p), SpeedGet(SpeedNow, p))

GraphGetVertexNeighbours(p) ==
  GraphAsk("GetVertexNeighbours", p, MemoryGetVertexNeighbours(memory_vertex_set_, p),
           SpeedGetVertexNeighbours(SpeedNow, p))

GraphIsLocalMaximalVertex(p) ==
  GraphAsk("IsLocalMaximalVertex", p, MemoryIsLocalMaximalVertex(memory_vertex_set_, p),
           SpeedIsLocalMaximalVertex(SpeedNow, p))

GraphIterate ==
  GraphAsk("Iterate", 0, MemoryIterate(memory_vertex_set_), SpeedIterate(SpeedNow))

GraphNext ==
  \/ \E p \in Cells(<<GSize, 1, 1>>), a \in GAnnotations : GraphInsert(p, a)
  \/ \E p \in Cells(<<GSize, 1, 1>>) : GraphRemove(p)
  \/ GraphClear
  \/ \E p \in Cells(<<GSize, 1, 1>>) : GraphHasVertex(p)
  \/ \E p \in Cells(<<GSize, 1, 1>>) : GraphGet(p)
  \/ \E p \in Cells(<<GSize, 1, 1>>) : GraphGetVertexNeighbours(p)
  \/ \E p \in Cells(<<GSize, 1, 1>>) : GraphIsLocalMaximalVertex(p)
  \/ GraphIterate

(***************************************************************************)
(* ============================  Network  ================================ *)
(* src/skeleton/network: NetworkBuilder::Build inserts a node for every    *)
(* point of the annotated image and links the nodes whose points are       *)
(* neighbours.  node_set_ is a std::set ordered by the point of the node,  *)
(* link_set_ a std::set ordered by (source_id_, target_id_).               *)
(***************************************************************************)
\* the images Build is called on hold at most NetMaxNodes points of the box
\* NetLength x 2 x 2
NetLength == 3
NetMaxNodes == 3

\* the number of values of Point::coordinate, uint16_t
CoordinateModulus == 65536

NetPoints == {<<x, y, z>> : x \in 0..(NetLength - 1), y \in 0..1, z \in 0..1}

\* the annotation DefaultReader reads for a point
NetAnnotation(point) == 1 + point[1]

\* Point::operator<
PointLess(a, b) ==
  \/ a[1] < b[1]
  \/ a[1] = b[1] /\ a[2] < b[2]
  \/ a[1] = b[1] /\ a[2] = b[2] /\ a[3] < b[3]

\* TwentySixNeighbourCalculator::PushPoint: the coordinates are cast to the
\* coordinate type
PushPoint(point, dx, dy, dz) ==
  <<(dx + point[1] + CoordinateModulus - 1) % CoordinateModulus,
    (dy + point[2] + CoordinateModulus - 1) % CoordinateModulus,
    (dz + point[3] + CoordinateModulus - 1) % CoordinateModulus>>

\* Node::CalculateNeighbourPoints, TwentySixNeighbourCalculator::GetNeighbours
\* of a point that belongs to no image
CalculateNeighbourPoints(point) ==
  LET offsets == SelectSeq(Offsets26, LAMBDA d : d # <<0, 0, 0>>)
  IN [q \in 1..Len(offsets) |->
        PushPoint(point, offsets[q][1] + 1, offsets[q][2] + 1, offsets[q][3] + 1)]

\* Node::CalculateSquaredDistance
CalculateSquaredDistance(a, b) ==
  (a[1] - b[1]) * (a[1] - b[1]) + (a[2] - b[2]) * (a[2] - b[2])
  + (a[3] - b[3]) * (a[3] - b[3])

\* Network::InsertNode: the set after the call and the flag of the pair returned
InsertNode(nodes, point, annotation) ==
  IF \E m \in nodes : m.point = point
  THEN [nodes |-> nodes, second |-> FALSE]
  ELSE [nodes |-> nodes \cup {[id |-> Cardinality(nodes), point |-> point,
                               annotation |-> annotation]},
        second |-> TRUE]

\* Network::CalculateNeighbourNodes
CalculateNeighbourNodes(nodes, node) ==
  LET points == CalculateNeighbourPoints(node.point)
      found == SelectSeq(points, LAMBDA q : \E m \in nodes : m.point = q)
  IN [i \in 1..Len(found) |-> CHOOSE m \in nodes : m.point = found[i]]

\* Network::HasLink
HasLink(links, node_A, node_B) ==
  \E k \in links : /\ k.source_id = Min2(node_A.id, node_B.id)
                   /\ k.target_id = Max2(node_A.id, node_B.id)

\* a link from the first node to the second, whatever their ids
InsertLinkAsGiven(links, node_A, node_B) ==
  IF \E k \in links : k.source_id = node_A.id /\ k.target_id = node_B.id
  THEN [links |-> links, second |-> FALSE]
  ELSE [links |-> links \cup {[id |-> Cardinality(links), source_id |-> node_A.id,
                               target_id |-> node_B.id,
                               squared_length |->
                                 CalculateSquaredDistance(node_A.point, node_B.point)]},
        second |-> TRUE]

\* Network::InsertLink: the set after the call and the flag of the pair
\* returned; the length of the link is the root of squared_length
InsertLink(links, node_A, node_B) ==
  IF HasLink(links, node_A, node_B)
  THEN [links |-> links, second |-> FALSE]
  ELSE [links |-> links \cup {[id |-> Cardinality(links),
                               source_id |-> Min2(node_A.id, node_B.id),
                               target_id |-> Max2(node_A.id, node_B.id),
                               squared_length |->
                                 CalculateSquaredDistance(node_A.point, node_B.point)]},
        second |-> TRUE]

\* the inner loop of LinkNeighbouringNodes: L = [links, success]
RECURSIVE LinkNeighbours(_, _, _)
LinkNeighbours(L, node, neighbours) ==
  IF neighbours = <<>> THEN L
  ELSE IF HasLink(L.links, node, neighbours[1])
  THEN LinkNeighbours(L, node, Tail(neighbours))
  ELSE LET status == InsertLink(L.links, node, neighbours[1])
       IN LinkNeighbours([links |-> status.links, success |-> L.success /\ status.second],
                         node, Tail(neighbours))

\* the node the iterator of node_set_ stands at after k increments
NodeAt(nodes, k) ==
  CHOOSE m \in nodes : Cardinality({o \in nodes : PointLess(o.point, m.point)}) = k

\* no caller builds a network
NetIdle ==
  /\ net_image = {}
  /\ net_rest = {}
  /\ node_set_ = {}
  /\ link_set_ = {}
  /\ net_cursor = 0
  /\ net_success = TRUE
  /\ net_pc = "idle"

\* a NetworkBuilder as constructed, about to Build from an image
NetInit ==
  /\ net_image \in {T \in SUBSET NetPoints : Cardinality(T) <= NetMaxNodes}
  /\ net_rest = net_image
  /\ node_set_ = {}
  /\ link_set_ = {}
  /\ net_cursor = 0
  /\ net_success = TRUE
  /\ net_pc = "insert"

\* one iteration of the loop of InsertNodesFrom; the image is an unordered
\* map and hands out its points in any order
NetInsertNode(point) ==
  /\ net_pc = "insert"
  /\ point \in net_rest
  /\ LET status == InsertNode(node_set_, point, NetAnnotation(point))
     IN /\ node_set_' = status.nodes
        /\ net_success' = (net_success /\ status.second)
  /\ net_rest' = net_rest \ {point}
  /\ UNCHANGED <<net_image, link_set_, net_cursor, net_pc>>
  /\ UNCHANGED nonNetVars

\* the end of the loop of InsertNodesFrom
NetInsertNodesEnd ==
  /\ net_pc = "insert"
  /\ net_rest = {}
  /\ net_pc' = "link"
  /\ UNCHANGED <<net_image, net_rest, node_set_, link_set_, net_cursor, net_success>>
  /\ UNCHANGED nonNetVars

\* one iteration of the outer loop of LinkNeighbouringNodes
NetLinkNode ==
  /\ net_pc = "link"
  /\ net_cursor < Cardinality(node_set_)
  /\ LET node == NodeAt(node_set_, net_cursor)
         L == LinkNeighbours([links |-> link_set_, success |-> net_success], node,
                             CalculateNeighbourNodes(node_set_, node))
     IN /\ link_set_' = L.links
        /\ net_success' = L.success
  /\ net_cursor' = net_cursor + 1
  /\ UNCHANGED <<net_image, net_rest, node_set_, net_pc>>
  /\ UNCHANGED nonNetVars

\* the end of the loop of LinkNeighbouringNodes; Build returns the network
NetLinkEnd ==
  /\ net_pc = "link"
  /\ net_cursor = Cardinality(node_set_)
  /\ net_pc' = "done"
  /\ UNCHANGED <<net_image, net_rest, node_set_, link_set_, net_cursor, net_success>>
  /\ UNCHANGED nonNetVars

NetNext ==
  \/ \E point \in NetPoints : NetInsertNode(point)
  \/ NetInsertNodesEnd
  \/ NetLinkNode
  \/ NetLinkEnd

(***************************************************************************)
(* Specifications                                                          *)
(***************************************************************************)
HeapSpecInit == HeapInit /\ HKIdle /\ IFTIdle /\ CLIdle /\ BHIdle /\ GraphIdle /\ NetIdle

HeapSpec == HeapSpecInit /\ [][HeapNext]_vars

HKSpecInit == HKInit /\ HeapIdle /\ IFTIdle /\ CLIdle /\ BHIdle /\ GraphIdle /\ NetIdle

HKSpec == HKSpecInit /\ [][HKNext]_vars

IFTSpecInit == IFTInit /\ HeapIdle /\ HKIdle /\ CLIdle /\ BHIdle /\ GraphIdle /\ NetIdle

IFTSpec == IFTSpecInit /\ [][IFTNext]_vars

CLSpecInit == CLInit /\ HKIdle /\ BHIdle /\ GraphIdle /\ NetIdle

CLSpec == CLSpecInit /\ [][CLNext]_vars

\* a caller of the heaps drives either a HandleBasedBinaryHeap or a BinaryHeap
HeapsSpecInit ==
  /\ HKIdle /\ IFTIdle /\ CLIdle /\ GraphIdle /\ NetIdle
  /\ \/ HeapInit /\ BHIdle
     \/ HeapIdle /\ bh_ret = [op |-> "none"]

HeapsNext ==
  \/ hret.op # "idle" /\ HeapNext
  \/ BHNext

HeapsSpec == HeapsSpecInit /\ [][HeapsNext]_vars

GraphSpecInit == GraphInit /\ HeapIdle /\ HKIdle /\ IFTIdle /\ CLIdle /\ BHIdle /\ NetIdle

GraphSpec == GraphSpecInit /\ [][GraphNext]_vars

NetSpecInit ==
  NetInit /\ HeapIdle /\ HKIdle /\ IFTIdle /\ CLIdle /\ BHIdle /\ GraphIdle

NetSpec == NetSpecInit /\ [][NetNext]_vars

(***************************************************************************)
(* C1: when Remove returns, the returned priority is less than or equal    *)
(* to the priority of every entry remaining in the heap.                   *)
(***************************************************************************)
C1_RemoveReturnsMinimum ==
  hret.op = "Remove" =>
    \A i \in 1..Len(elements_) :
      ~KeyLess(handles[elements_[i]].priority, hret.minimum)

\* a Remove has returned from a heap that still holds entries, some of them
\* moved by decrease-key, and heapify had to reorder
C1_Witness ==
  /\ hret.op = "Remove"
  /\ Len(elements_) >= 2
  /\ decreaseCounter_ > NextHandle - 1
  /\ removeCounter_ >= 2

(***************************************************************************)
(* C4: after the sweep and the verification pass, two pore voxels carry    *)
(* the same proper label exactly when they lie in the same 26-connected    *)
(* component of the pore space.                                            *)
(***************************************************************************)
C4_LabelsAreComponents ==
  hk_pc = "percolate" =>
    \A p \in Flagged :
      LET same == Component(p)
      IN \A q \in Flagged : (l.mem[p + 1] = l.mem[q + 1]) <=> (q \in same)

\* the verification pass has run on a cube where two labels were merged and
\* another component kept its own label
C4_Witness ==
  /\ hk_pc = "percolate"
  /\ \E x \in 1..Len(n) : n[x] < 0
  /\ \E p \in Flagged : \E q \in Flagged : l.mem[p + 1] # l.mem[q + 1]

(***************************************************************************)
(* C5: when the labelling has finished, a voxel is 1 in the output exactly *)
(* when it is a pore voxel whose cluster percolates (the extents of its    *)
(* bounding box multiply to the number of voxels of the cube), for every   *)
(* cluster, whatever its size relative to the other clusters.              *)
(***************************************************************************)
C5_RetainedIffPercolates ==
  hk_pc = "done" =>
    \A p \in 0..(NElem(flagged) - 1) :
      (l.mem[p + 1] = 1) <=> (p \in Flagged /\ ComponentPercolates(Component(p)))

C2_DistanceIsMinimal ==
  ift_pc = "done" =>
    \A v \in Pores : annotations_[v + 1].has =>
      \A b \in Seeds : SquaredDistance(image_, v, b) >= annotations_[v + 1].distance

(***************************************************************************)
(* C3: after the IFT completes, the distance stored for a pore voxel v is  *)
(* the sum over the axes of the squared coordinate difference between v    *)
(* and the seed point of its annotation, and equals the sum of the squares *)
(* of its stored displacements.                                            *)
(***************************************************************************)
C3_DistanceMatchesSeedPoint ==
  ift_pc = "done" =>
    \A v \in Pores : annotations_[v + 1].has =>
      LET a == annotations_[v + 1]
      IN /\ a.distance = SquaredDistance(image_, v, a.point)
         /\ a.distance = a.displacements[1] * a.displacements[1]
                         + a.displacements[2] * a.displacements[2]
                         + a.displacements[3] * a.displacements[3]

\* the IFT has completed on an image where some pore voxel lies off every
\* axis of its seed point, two or more steps away
C3_Witness ==
  /\ ift_pc = "done"
  /\ \E v \in Pores :
       /\ annotations_[v + 1].has
       /\ annotations_[v + 1].status = "removed"
       /\ annotations_[v + 1].distance >= 5
       /\ annotations_[v + 1].displacements[1] > 0
       /\ annotations_[v + 1].displacements[2] > 0


(***************************************************************************)
(* Centerlines                                                             *)
(***************************************************************************)
\* the points of the internal positions of a line
InternalPoints(path) == {path[i].point : i \in 2..(Len(path) - 1)}

\* C7: after SplitByBranchPoints has returned, no centerline of the set has
\* a branch point at an internal position (any index but the first and the
\* last): a branch point is only ever the end of a line.
C7_NoInternalBranchPoint ==
  cl_pc = "done" =>
    \A j \in 1..Len(paths_) : InternalPoints(paths_[j]) \cap branch_nodes_ = {}

\* SplitByBranchPoints has cut a line: a line ends at a branch point and a
\* later line of at least two nodes starts there
C7_Witness ==
  /\ cl_pc = "done"
  /\ \E j \in 1..Len(paths_) : \E k \in (j + 1)..Len(paths_) :
       /\ Len(paths_[j]) >= 2
       /\ Len(paths_[k]) >= 2
       /\ paths_[j][Len(paths_[j])].point = paths_[k][1].point
       /\ paths_[k][1].point \in branch_nodes_

\* C8: in every centerline GetSegments has put in the set, the segments
\* closed at a node of an earlier line included, every two consecutive
\* nodes are 26-neighbours: no coordinate differs by more than one and the
\* two points differ.
C8_ConsecutiveNodesAreNeighbours ==
  \A j \in 1..Len(paths_) : \A i \in 1..(Len(paths_[j]) - 1) :
    IsNeighbour(paths_[j][i].point, paths_[j][i + 1].point)

\* the set holds a line of three nodes or more and a segment that was closed
\* where it met an earlier line
C8_Witness ==
  /\ cl_pc = "split"
  /\ branch_nodes_ # {}
  /\ \E j \in 1..Len(paths_) : Len(paths_[j]) >= 3
  /\ \E j \in 2..Len(paths_) :
       /\ Len(paths_[j]) >= 2
       /\ paths_[j][Len(paths_[j])].point \in branch_nodes_

\* following the predecessors from vertex_key reaches the source within
\* fuel steps, over vertices of the graph only, and the source has none
RECURSIVE ChainReaches(_, _, _)
ChainReaches(vertex_key, source, fuel) ==
  /\ HasVertex(vertex_key)
  /\ annotated_graph_[vertex_key + 1].has
  /\ IF vertex_key = source
     THEN ~annotated_graph_[vertex_key + 1].has_predecessor
     ELSE /\ annotated_graph_[vertex_key + 1].has_predecessor
          /\ fuel > 0
          /\ ChainReaches(annotated_graph_[vertex_key + 1].predecessor, source, fuel - 1)

\* the vertices of the result graph of the run
ResultVertices == {p \in 0..(NElem(image_) - 1) : annotated_graph_[p + 1].has}

\* C9: after ExecuteGradient has returned from a run from source s, the
\* predecessor links from any vertex of the result graph lead to s in
\* finitely many steps: there is no cycle, s has no predecessor and every
\* vertex on the way is a vertex of the graph.
C9_PredecessorChainsReachSource ==
  cl_pc \in {"add_sets", "split", "done"} =>
    \A vertex_key \in ResultVertices :
      ChainReaches(vertex_key, executed_sources[Len(executed_sources)], NElem(image_))

\* a run has ended with a vertex two links or more away from the source
C9_Witness ==
  /\ cl_pc = "add_sets"
  /\ \E vertex_key \in ResultVertices :
       /\ annotated_graph_[vertex_key + 1].has_predecessor
       /\ annotated_graph_[annotated_graph_[vertex_key + 1].predecessor + 1].has_predecessor

\* C10: when ComputeForSources gets to the splitting, the router has
\* executed a run from every source point that is a vertex of the graph.
C10_EverySourceExecuted ==
  cl_pc \in {"split", "done"} =>
    \A i \in 1..Len(source_points) :
      HasVertex(source_points[i]) => source_points[i] \in Range(executed_sources)



(***************************************************************************)
(* Claims on the skeletonizer, the cluster labelling and the heaps         *)
(***************************************************************************)
\* the distance of a voxel to the nearest face of the image along an axis
AxisDistanceToFace(img, p) ==
  LET c == Coords(img, p)
      size == <<img.n_rows, img.n_cols, img.n_slices>>
  IN Min2(Min2(Min2(c[1], size[1] - 1 - c[1]), Min2(c[2], size[2] - 1 - c[2])),
          Min2(c[3], size[3] - 1 - c[3]))

AllPore == Pores = Cells(<<image_.n_rows, image_.n_cols, image_.n_slices>>)

(***************************************************************************)
(* C11: after the IFT has run on an image in which every voxel is pore,    *)
(* every voxel is annotated and its distance is the square of its smallest *)
(* axis distance to a face of the image: 0 on the outer faces and 1 at the *)
(* centre of a 3 x 3 x 3 image.                                            *)
(***************************************************************************)
C11_AllPoreCubeDistances ==
  (ift_pc = "done" /\ AllPore) =>
    \A v \in Pores :
      /\ annotations_[v + 1].has
      /\ annotations_[v + 1].distance
           = AxisDistanceToFace(image_, v) * AxisDistanceToFace(image_, v)

(***************************************************************************)
(* C11, amended: on an image in which every voxel is pore the IFT finds no *)
(* contour voxel, enqueues no seed and leaves every voxel, the centre of a *)
(* 3 x 3 x 3 image included, without annotation and at the default         *)
(* distance.                                                               *)
(***************************************************************************)
C11_AllPoreCubeNotAnnotated ==
  (ift_pc # "start" /\ AllPore) =>
    /\ ift_pc = "done"
    /\ queue.el = <<>>
    /\ \A v \in Pores : ~annotations_[v + 1].has /\ annotations_[v + 1].distance = Int32Max

\* the IFT has completed on the 3 x 3 x 3 image of pores
C11_Witness ==
  /\ ift_pc = "done"
  /\ image_ = AllPoreCube
  /\ AllPore
  /\ ~annotations_[14].has

(***************************************************************************)
(* C12: when the image handed to the skeletonizer has no pore voxel, so    *)
(* that the annotation and the graph are empty, the centerline computation *)
(* raises no error and ends with an empty centerline set.                  *)
(***************************************************************************)
C12_EmptyGraphGivesEmptySet ==
  (Pores = {} /\ cl_pc \notin {"idle", "skeleton"}) =>
    /\ cl_pc \notin {"exception", "aborted"}
    /\ paths_ = <<>>

(***************************************************************************)
(* C13: EnhancedHoshenKopelman called on the mask an earlier call of the   *)
(* same process returned gives that mask back.                             *)
(***************************************************************************)
C13_SecondCallKeepsMask ==
  (hk_calls = 2 /\ hk_pc = "done") => l = flagged

\* every call of HKProper that x.transform makes over labels, starting from
\* the machine M, returns the end of the chain of links of its label in the
\* n of the moment of the call
RECURSIVE ProperEverywhere(_, _)
ProperEverywhere(labels, M) ==
  IF labels = <<>> THEN TRUE
  ELSE LET M1 == HKProper(labels[1], M)
       IN /\ M1.oob \/ M1.ret = FollowLinks(M.n, labels[1])
          /\ ProperEverywhere(Tail1(labels), M1)

(***************************************************************************)
(* C14: every evaluation of HKProper(label, n) made during the labelling   *)
(* returns the label at the end of the chain of links of label in n as it  *)
(* is at that moment, also when a merge has changed n since the previous   *)
(* evaluation.  Stated on the evaluations the next step of the call makes. *)
(***************************************************************************)
C14_ProperReturnsChainEnd ==
  /\ (hk_pc = "sweep" /\ hk_pos < NElem(l) /\ l.mem[hk_pos + 1] # 0) =>
       LET labels == PreviousLabels(RowOf(l, hk_pos), ColOf(l, hk_pos), SliceOf(l, hk_pos), l)
           R1 == TransformProper(labels, Machine, <<>>)
       IN ProperEverywhere(labels, Machine) /\ ProperEverywhere(R1.out, R1.m)
  /\ hk_pc \in {"check", "eliminate"} => ProperEverywhere(l.mem, Machine)

(***************************************************************************)
(* C15: after every Insert, DecreasePriority and Remove of the handle      *)
(* based heap, every entry still in the heap is live and its handle holds  *)
(* the index of the slot of elements_ the entry is at, and every live      *)
(* handle is the handle of the slot its index names.                       *)
(***************************************************************************)
C15_HandleIndexIsPosition ==
  /\ \A i \in 1..Len(elements_) :
       /\ handles[elements_[i]].live
       /\ handles[elements_[i]].index = i - 1
  /\ \A h \in DOMAIN handles :
       handles[h].live =>
         /\ handles[h].index < Len(elements_)
         /\ elements_[handles[h].index + 1] = h

\* a Remove has left three entries in the heap, in an order that is not the
\* order of their insertion, after some DecreasePriority
C15_Witness ==
  /\ hret.op = "Remove"
  /\ Len(elements_) >= 3
  /\ decreaseCounter_ > Len(handles)
  /\ \E i \in 1..Len(elements_), j \in 1..Len(elements_) :
       i < j /\ elements_[i] > elements_[j]

(***************************************************************************)
(* C16: a DecreasePriority of the handle based heap whose new priority is  *)
(* greater than the priority of the entry throws and leaves the heap as it *)
(* was, and so does an IncreasePriority of the key based heap, by index    *)
(* and by key, whose new priority is greater than the priority it replaces.*)
(***************************************************************************)
C16_GreaterPriorityThrows ==
  [][/\ hret'.op \in {"Decrease", "DecreaseThrow"} =>
          (KeyLess(handles[hret'.handle].priority, hret'.key) =>
             /\ hret'.op = "DecreaseThrow"
             /\ elements_' = elements_
             /\ handles' = handles
             /\ decreaseCounter_' = decreaseCounter_)
     /\ bh_ret'.op \in {"IncreasePriorityAt", "IncreasePriority"} =>
          (SkLess(bh_ret'.old, bh_ret'.key) =>
             /\ bh_ret'.throws
             /\ queue'.el = queue.el
             /\ queue'.map = queue.map)]_vars

\* an IncreasePriority by key has thrown on a heap of three entries
C16_Witness ==
  /\ bh_ret.op = "IncreasePriority"
  /\ bh_ret.throws
  /\ SkLess(bh_ret.old, bh_ret.key)
  /\ Len(queue.el) = 3

(***************************************************************************)
(* C17, as stated: the entry a Remove returns was inserted before every    *)
(* entry of the same priority that stays in the heap, whatever insertions, *)
(* changes of priority and removals came before, in the handle based heap  *)
(* of the router and in the queue of the image foresting transform.        *)
(***************************************************************************)
C17_FIFOByInsertion ==
  /\ hret.op = "Remove" =>
       \A h \in DOMAIN handles :
          (handles[h].live /\ handles[h].priority.distance = hret.minimum.distance) =>
            hret.minimum.counter < handles[h].priority.counter
  /\ (bh_ret.op = "Remove" /\ ~bh_ret.throws) =>
       \A i \in 1..Len(queue.el) :
          (/\ queue.el[i].distance = bh_ret.key.distance
           /\ queue.el[i].point[2] = bh_ret.key.point[2]) =>
            bh_ret.key.point[1] < queue.el[i].point[1]

(***************************************************************************)
(* C17, amended: among entries of the same priority a Remove returns the   *)
(* one whose key was built first.  In the heap of the router a change of   *)
(* priority keeps the counter of the vertex, and that is the order of      *)
(* insertion; in the queue of the transform every IncreasePriority builds  *)
(* a key with the next counter value, and the order is that of the last    *)
(* Insert or IncreasePriority of each entry.                               *)
(***************************************************************************)
C17_FIFOByKeyCounter ==
  /\ hret.op = "Remove" =>
       \A h \in DOMAIN handles :
          (handles[h].live /\ handles[h].priority.distance = hret.minimum.distance) =>
            hret.minimum.counter < handles[h].priority.counter
  /\ (bh_ret.op = "Remove" /\ ~bh_ret.throws) =>
       \A i \in 1..Len(queue.el) :
          queue.el[i].distance = bh_ret.key.distance =>
            bh_ret.key.counter < queue.el[i].counter

\* a Remove has returned an entry that was inserted after an entry still in
\* the queue, with the same priority then and now, and whose key is the older
\* of the two
C17_Witness ==
  /\ bh_ret.op = "Remove"
  /\ \E i \in 1..Len(queue.el) :
       /\ queue.el[i].distance = bh_ret.key.distance
       /\ queue.el[i].point[2] = bh_ret.key.point[2]
       /\ queue.el[i].point[1] < bh_ret.key.point[1]
       /\ bh_ret.key.counter < queue.el[i].counter

(***************************************************************************)
(* C18: whatever calls came before, a call made on a MemoryGraph and on a  *)
(* SpeedGraph built from the same image gives the same answer on both: the *)
(* same value, the same set of visited vertices, or a failure on both.     *)
(***************************************************************************)
C18_SameContract ==
  g_ret.op \notin {"idle", "Build"} => g_ret.memory = g_ret.speed

(***************************************************************************)
(* C19: an Insert of a vertex whose key is in the graph fails and leaves   *)
(* the stored vertex as it was, in the MemoryGraph and in the SpeedGraph.  *)
(***************************************************************************)
C19_InsertOfPresentKeyThrows ==
  [][(g_ret'.op = "Insert" /\ MemoryHasVertex(memory_vertex_set_, g_ret'.point)
                           /\ SpeedHasVertex(SpeedNow, g_ret'.point)) =>
       /\ g_ret'.memory.fails
       /\ g_ret'.speed.fails
       /\ memory_vertex_set_' = memory_vertex_set_
       /\ speed_vertex_set_' = speed_vertex_set_]_vars

\* the results of a run: the graphs without the counters and the queue
\* handles of their annotations, the visited pairs and the candidate list
Results(D) ==
  LET Plain(graph) == [q \in 1..Len(graph) |->
                         [graph[q] EXCEPT !.counter_value_ = 0, !.tag = 0]]
  IN [ag |-> Plain(D.ag), acc |-> Plain(D.acc), pen |-> Plain(D.pen),
      lab |-> Plain(D.lab), pairs |-> D.pairs, cands |-> D.cands]

(***************************************************************************)
(* C20: after ExecuteGradient from a source A and then from a source B on  *)
(* the same Dijkstra object, the result graph, the accumulated distances   *)
(* and penalties, the path labels, the visited label pairs and the list of *)
(* cycle candidates are those of ExecuteGradient from B on a fresh object. *)
(***************************************************************************)
C20_SecondRunStartsClean ==
  cl_pc = "again" =>
    Results(DijkstraNow) = Results(ExecuteGradient(FreshDijkstra, executed_sources[2]))

(***************************************************************************)
(* Claims on the clusters of maxima, the router, the queue of the          *)
(* transform, the centerline set, the network and the cluster labelling    *)
(***************************************************************************)

\* the vertices of the graph that are local maxima
LocalMaxima == {p \in 0..(NElem(image_) - 1) : HasVertex(p) /\ IsLocalMaximalVertex(p)}

\* the local maxima a path of face- or edge-adjacent local maxima joins to S
RECURSIVE JoinedTo(_)
JoinedTo(S) ==
  LET S1 == S \cup {v \in LocalMaxima :
                      \E u \in S : IsFaceNeighbour(u, v) \/ IsEdgeNeighbour(u, v)}
  IN IF S1 = S THEN S ELSE JoinedTo(S1)

(***************************************************************************)
(* C21: once MaximalClustersDiscoverer::Execute has run, two local maxima  *)
(* have the same cluster identifier exactly when a path of local maxima    *)
(* with face- or edge-adjacent consecutive vertices joins them, and every  *)
(* vertex that is not a local maximum has the identifier -1.               *)
(***************************************************************************)
C21_ClustersAreComponents ==
  cluster_id_ # <<>> =>
    /\ \A u \in LocalMaxima, v \in LocalMaxima :
         (cluster_id_[u + 1] = cluster_id_[v + 1]) <=> (v \in JoinedTo({u}))
    /\ \A p \in 0..(NElem(image_) - 1) :
         (HasVertex(p) /\ p \notin LocalMaxima) => cluster_id_[p + 1] = -1

\* two local maxima that touch at a corner only are in two clusters, and two
\* others that touch at a face are in one
C21_Witness ==
  /\ cluster_id_ # <<>>
  /\ \E u \in LocalMaxima, v \in LocalMaxima :
       /\ IsVertexNeighbour(u, v)
       /\ cluster_id_[u + 1] # cluster_id_[v + 1]
       /\ cluster_id_[u + 1] >= 0
       /\ cluster_id_[v + 1] >= 0


\* the unordered pair of path labels of a pair of vertices
PairOfPathLabels(D, c) == {GetLabelPath(D, c[1]), GetLabelPath(D, c[2])}

\* the candidates of the first run of the router are sound: the second
\* vertex of each is removed, the two path labels differ, their pair is
\* marked visited, and no two candidates have the same pair of labels
CandidatesAreSound(D) ==
  /\ \A i \in 1..Len(D.cands) :
       /\ D.ag[D.cands[i][2] + 1].is_removed
       /\ GetLabelPath(D, D.cands[i][1]) # GetLabelPath(D, D.cands[i][2])
       /\ GetPairKey(GetLabelPath(D, D.cands[i][1]), GetLabelPath(D, D.cands[i][2]))
            \in D.pairs
  /\ \A i \in 1..Len(D.cands), j \in 1..Len(D.cands) :
       (i # j) => (PairOfPathLabels(D, D.cands[i]) # PairOfPathLabels(D, D.cands[j]))

\* C22: during a run of the router a pair (v, u) is recorded only when u is
\* already removed and the pair of the path labels of v and u was not marked
\* visited before the step; recording marks the pair, and no two candidates
\* of one run have the same unordered pair of path labels
C22_CandidatesOncePerLabelPair ==
  [][(Len(executed_sources') = 1 /\ cl_pc' \in {"dijkstra", "add_sets"})
       => /\ CandidatesAreSound(DijkstraNow)'
          /\ \A i \in (Len(end_vertices_candidate_list_) + 1)
                        ..Len(end_vertices_candidate_list_') :
               LET c == end_vertices_candidate_list_'[i]
               IN /\ annotated_graph_[c[2] + 1].is_removed
                  /\ GetPairKey(annotated_label_graph_'[c[1] + 1].cluster_id_,
                                annotated_label_graph_'[c[2] + 1].cluster_id_)
                       \notin pair_labels_]_vars

C22_Witness ==
  /\ Len(executed_sources) = 1
  /\ cl_pc \in {"dijkstra", "add_sets"}
  /\ end_vertices_candidate_list_ # <<>>


\* the keys of the queue of the transform that belong to voxel p
QueuedKeysOf(Q, p) == {i \in 1..Len(Q.el) : Q.el[i].point = p}

\* C23: during the transform no annotation is deleted, an annotation that
\* is marked removed is never changed by a later step, and its voxel is
\* never in the queue again
C23_RemovedAnnotationsAreFrozen ==
  [][\A p \in 0..(NElem(image_) - 1) :
       /\ annotations_[p + 1].has => annotations_'[p + 1].has
       /\ annotations_[p + 1].status = "removed"
            => annotations_'[p + 1] = annotations_[p + 1]
       /\ annotations_'[p + 1].status = "removed"
            => QueuedKeysOf(queue', p) = {}]_vars

\* an iteration is about to pop a voxel that has a removed neighbour
C23_Witness ==
  /\ ift_pc = "iterate"
  /\ LET neighbours == GetNeighbours(image_, queue.el[1].point)
     IN \E i \in 1..Len(neighbours) :
          annotations_[neighbours[i] + 1].status = "removed"


\* C24: for a run of the router from a source, the end points handed to the
\* centerline set are the centerpoints off the face of the source, and no
\* centerline begins its walk back at the source itself
C24_SinksAreOffTheSourceFace ==
  (cl_pc = "split" /\ Len(executed_sources) = 1)
    => /\ end_points = FilterEnds(executed_sources[1], end_points)
       /\ \A i \in 1..Len(paths_) : paths_[i][1].point # executed_sources[1]


\* C25: the transform ends with an empty queue, and at its end every pore
\* voxel has an annotation that is marked removed and whose seed point is a
\* seed at the least squared distance from the voxel
C25_EveryPoreRemovedWithNearestSeed ==
  ift_pc = "done" =>
    /\ queue.el = <<>>
    /\ \A v \in Pores :
         /\ annotations_[v + 1].has
         /\ annotations_[v + 1].status = "removed"
         /\ \A b \in Seeds :
              SquaredDistance(image_, v, annotations_[v + 1].point)
                <= SquaredDistance(image_, v, b)


\* the keys a BinaryHeap stores
StoredKeys(Q) == {Q.el[i] : i \in 1..Len(Q.el)}

\* the keys the calls of Remove return until the heap is empty, a call that
\* throws ending the sequence with the maximum key
RECURSIVE RemoveAll(_)
RemoveAll(Q) ==
  IF Q.el = <<>> THEN <<>>
  ELSE IF Remove(Q).fail THEN <<Q.el[1], MaximumKey>>
  ELSE <<Q.el[1]>> \o RemoveAll(Remove(Q))

\* C26: on a BinaryHeap of pairwise distinct keys, after any calls of Insert,
\* Remove and IncreasePriority, IncreasePriority(old_key, new_key) with
\* old_key stored and new_key not greater than old_key puts new_key in the
\* place of old_key and leaves every other key, and the calls of Remove that
\* follow return the stored keys in ascending order
C26_IncreasePriorityReplacesOldKey ==
  [][(/\ bh_ret'.op = "IncreasePriority"
      /\ bh_ret'.old \in StoredKeys(queue)
      /\ Cardinality({MapKey(k) : k \in StoredKeys(queue) \cup {bh_ret'.key}})
           = Len(queue.el) + 1
      /\ ~SkLess(bh_ret'.old, bh_ret'.key))
       => /\ ~bh_ret'.throws
          /\ Len(queue'.el) = Len(queue.el)
          /\ StoredKeys(queue') = (StoredKeys(queue) \ {bh_ret'.old}) \cup {bh_ret'.key}
          /\ LET removed == RemoveAll(queue')
             IN /\ Len(removed) = Len(queue'.el)
                /\ \A i \in 1..(Len(removed) - 1) : SkLess(removed[i], removed[i + 1])]_vars


\* the pieces of a line cut at each of its internal branch points, every
\* piece but the first beginning with the node the piece before it ends with
RECURSIVE CutFrom(_, _, _)
CutFrom(path, i, branch) ==
  IF i >= Len(path) THEN <<path>>
  ELSE IF path[i].point \in branch
  THEN <<SubSeq(path, 1, i)>> \o CutFrom(SubSeq(path, i, Len(path)), 2, branch)
  ELSE CutFrom(path, i + 1, branch)

CutAtBranchPoints(path, branch) == CutFrom(path, 2, branch)

\* the number of times a line occurs in a sequence of lines
Occurrences(line, lines) == Cardinality({k \in 1..Len(lines) : lines[k] = line})

\* the pieces of all the lines of a set
RECURSIVE AllPieces(_, _)
AllPieces(paths, branch) ==
  IF paths = <<>> THEN <<>>
  ELSE CutAtBranchPoints(paths[1], branch) \o AllPieces(Tail(paths), branch)

\* C27: SplitByBranchPoints loses and duplicates nothing: the lines of the
\* set after the call are the pieces of the lines before it, each line the
\* concatenation of its pieces with the branch node shared by the two pieces
\* that meet there, the first piece staying in the place of the line, and a
\* line with no internal branch point staying as it was
C27_SplitKeepsEveryNodeOnce ==
  [][(cl_pc = "split" /\ cl_pc' = "done")
       => LET pieces == AllPieces(paths_, branch_nodes_)
          IN /\ Len(paths_') = Len(pieces)
             /\ \A k \in 1..Len(pieces) :
                  Occurrences(pieces[k], paths_') = Occurrences(pieces[k], pieces)
             /\ \A j \in 1..Len(paths_) :
                  /\ paths_'[j] = CutAtBranchPoints(paths_[j], branch_nodes_)[1]
                  /\ InternalPoints(paths_[j]) \cap branch_nodes_ = {}
                       => paths_'[j] = paths_[j]]_vars

\* the set about to be split holds a line with an internal branch point and
\* a line without one
C27_Witness ==
  /\ cl_pc = "split"
  /\ \E j \in 1..Len(paths_) : InternalPoints(paths_[j]) \cap branch_nodes_ # {}
  /\ \E j \in 1..Len(paths_) :
       Len(paths_[j]) >= 2 /\ InternalPoints(paths_[j]) \cap branch_nodes_ = {}


\* C28: Remove on a handle-based heap of one entry returns the priority of
\* that entry, leaves the heap empty, and neither reads nor writes a slot or
\* a handle that has been released
C28_RemoveOfTheOnlyEntryIsClean ==
  [][(HeapSize(HeapNow) = 1 /\ hret'.op \in {"Remove", "abort"} /\ elements_' # elements_)
       => /\ hret'.op = "Remove"
          /\ hret'.minimum = handles[elements_[1]].priority
          /\ elements_' = <<>>
          /\ ~hret'.uaf]_vars


\* two points are 26-neighbours: they differ, and by one at most in every
\* coordinate
AreTwentySixNeighbours(a, b) ==
  /\ a # b
  /\ \A c \in 1..3 : a[c] - b[c] \in {-1, 0, 1}

\* the links of the network between two nodes
LinksBetween(a, b) ==
  {k \in link_set_ : {k.source_id, k.target_id} = {a.id, b.id}}

\* C29: after Build two distinct nodes are joined by a link exactly when
\* their points are 26-neighbours, by one link and no more, and the source
\* id of every link is smaller than its target id
C29_LinksAreTheNeighbourPairs ==
  net_pc = "done" =>
    /\ \A a \in node_set_, b \in node_set_ :
         (a # b) =>
           /\ (LinksBetween(a, b) # {}) <=> AreTwentySixNeighbours(a.point, b.point)
           /\ Cardinality(LinksBetween(a, b)) <= 1
    /\ \A k \in link_set_ : k.source_id < k.target_id

\* a network is built in which two nodes are linked, two are not, and the
\* node that was visited first in a linked pair has the greater id
C29_Witness ==
  /\ net_pc = "done"
  /\ \E a \in node_set_, b \in node_set_ :
       /\ LinksBetween(a, b) # {}
       /\ PointLess(a.point, b.point)
       /\ a.id > b.id
  /\ \E a \in node_set_, b \in node_set_ : a # b /\ LinksBetween(a, b) = {}


\* C30: during the sweep every label that has been allocated is an index of
\* n, bbox_min and bbox_max, which hold NElem(l) \div 2 entries, on every
\* cube, the cubes one voxel thick included
C30_LabelsFitTheReservation ==
  hk_pc # "idle" =>
    /\ largest_label < Len(n)
    /\ largest_label < Len(bbox_min)
    /\ largest_label < Len(bbox_max)

=============================================================================
